---- MODULE Spec2Model ----
(***************************************************************************)
(* ActivityD ("Draw a Digit") of Moaesaycto/ai-games: the live digit       *)
(* pipeline.  A drawing canvas is preprocessed to a 28x28 grid, classified *)
(* against a bank of rendered prototypes, and the run is throttled by      *)
(* requestAnimationFrame.                                                  *)
(*                                                                         *)
(* Numbers.  A grid cell holds an ink value in units of 1/255 (an integer  *)
(* 0..255 stands for v/255); for the grey pixels of the model this is what *)
(* fromImageDataToGray computes.  mse returns the sum of squared           *)
(* differences, i.e. the mean squared error in units of 1/(255*255*h*w).   *)
(* Math.sqrt, Math.exp and the divisions of the softmax are computed in    *)
(* fixed point (alpha to 1/1000, exponents and exp to 1e-7, probabilities  *)
(* to 1e-8), rounding down, inside 32-bit integers.                        *)
(***************************************************************************)
EXTENDS Integers, Sequences, FiniteSets, TLC

VARIABLES
    mounted,      \* ActivityD is mounted (listeners attached, refs set)
    bitmap,       \* backing store of the drawing canvas (drawRef), [y][x] -> RGBA
    drawing,      \* drawing.current
    penPos,       \* current point of the canvas path (moveTo / lineTo), or Null
    brush,        \* React state brush
    lineWidth,    \* ctx.lineWidth of the drawing canvas
    rafId,        \* rafId.current: 0 is null, otherwise the handle
    rafQueue,     \* the browser's list of animation-frame callbacks not yet run
    grid28,       \* React state grid28
    preds,        \* React state preds
    topProto,     \* React state topProto
    overlayBox,   \* the rectangle stroked on the overlay canvas, or Null
    scratchCrop,  \* bitmap of the canvas of scratchCropRef
    scratchOut,   \* bitmap of the canvas of scratchOutRef
    protos,       \* the prototype bank (useMemo)
    gridSrc,      \* history: the bitmap read by the run that set grid28
    predsSrc,     \* history: the bitmap read by the run that set preds
    protoSrc,     \* history: the bitmap read by the run that set topProto
    pendingEvents,\* history: input events since the last dispatched frame
    frameEvents,  \* history: input events served by the last dispatched frame
    frameRuns,    \* history: runs of processNow made by the last dispatched frame
    adjusts,      \* history: resizes and brush changes since mount
    afterClear,   \* history: Clear was pressed and no pointer event came since
    arg,          \* argument of the function applied by SpecRun/SpecScale/SpecClassify
    ret,          \* its result, or Null
    viteCodes,    \* import.meta.env.VITE_CODES, a text
    input,        \* ActivityLoader: React state input, a text
    error,        \* ActivityLoader: React state error, or Null
    activeNode,   \* ActivityPage: React state activeNode, or Null
    loaded,       \* ActivityA is on the page
    status,       \* ActivityA: React state status
    current,      \* React state current, or Null
    records,      \* React state records
    roundId,      \* React state roundId
    runningRef,   \* runningRef.current
    bombDelayMsRef, \* bombDelayMsRef.current
    bombTO,       \* bombTO.current: 0 is null, otherwise the handle
    tickTO,       \* tickTO.current
    explosionTO,  \* explosionTO.current
    currentRef,   \* currentRef.current, or Null
    lastCurrRef,  \* lastCurrRef.current, or Null
    showExplosion,\* React state showExplosion
    timeouts,     \* the browser's timeouts that are set and not yet run
    begun,        \* history: rounds begun since ActivityA was loaded
    ended,        \* history: the calls of endRound, with round and caller
    abandoned,    \* history: rounds that were running at a reset or at the close
    loadedC,      \* ActivityC is on the page
    statusC,      \* ActivityC: React state status
    mseNowC,      \* ActivityC: mseNow = mse(x, target), in thousandths
    TC,           \* ActivityC: React state T
    tC,           \* ActivityC: React state t
    autoC,        \* ActivityC: React state auto
    autoTOC,      \* ActivityC: the timeout of autoTO is set and not yet run
    explosionTOC, \* ActivityC: the timeout of explosionTO is set and not yet run
    recordsC,     \* ActivityC: React state records
    roundIdC,     \* ActivityC: React state roundId
    showExplosionC, \* ActivityC: React state showExplosion
    begunC,       \* history: rounds begun since ActivityC was loaded
    endedC,       \* history: the calls of ActivityC's endRound, with their round
    abandonedC,   \* history: rounds that were running when they were dropped
    loadedB,      \* ActivityB is on the page
    statusB,      \* ActivityB: React state status
    selectedDifficulty, \* React state selectedDifficulty
    difficulty,   \* React state difficulty
    target,       \* React state target, a text
    revealed,     \* React state revealed
    hintsUsed,    \* React state hintsUsed
    guess,        \* React state guess, a text
    recordsB,     \* ActivityB: React state records
    roundIdB,     \* ActivityB: React state roundId
    showExplosionB, \* ActivityB: React state showExplosion
    explosionTOB, \* ActivityB: the timeout of explosionTO is set and not yet run
    begunB        \* history: rounds begun since ActivityB was loaded

vars == <<mounted, bitmap, drawing, penPos, brush, lineWidth, rafId, rafQueue, grid28, preds,
          topProto, overlayBox, scratchCrop, scratchOut, protos, gridSrc, predsSrc, protoSrc,
          pendingEvents, frameEvents, frameRuns, adjusts, afterClear, arg, ret,
          viteCodes, input, error, activeNode,
          loaded, status, current, records, roundId, runningRef, bombDelayMsRef, bombTO,
          tickTO, explosionTO, currentRef, lastCurrRef, showExplosion, timeouts, begun,
          ended, abandoned,
          loadedC, statusC, mseNowC, TC, tC, autoC, autoTOC, explosionTOC, recordsC,
          roundIdC, showExplosionC, begunC, endedC, abandonedC,
          loadedB, statusB, selectedDifficulty, difficulty, target, revealed, hintsUsed,
          guess, recordsB, roundIdB, showExplosionB, explosionTOB, begunB>>

\* the state of ActivityPage and ActivityLoader
loaderVars == <<viteCodes, input, error, activeNode>>

\* the state of ActivityA
bombVars == <<loaded, status, current, records, roundId, runningRef, bombDelayMsRef, bombTO,
              tickTO, explosionTO, currentRef, lastCurrRef, showExplosion, timeouts, begun,
              ended, abandoned>>

\* the state of ActivityC
diffusionVars == <<loadedC, statusC, mseNowC, TC, tC, autoC, autoTOC, explosionTOC, recordsC,
                   roundIdC, showExplosionC, begunC, endedC, abandonedC>>

\* the state of ActivityB
wordVars == <<loadedB, statusB, selectedDifficulty, difficulty, target, revealed, hintsUsed,
              guess, recordsB, roundIdB, showExplosionB, explosionTOB, begunB>>

\* the state of the components other than ActivityD
componentVars == <<loaderVars, bombVars, diffusionVars, wordVars>>

\* what only Clear and the pointer listeners of ActivityD change, and the
\* other components
otherVars == <<afterClear, componentVars>>

\* the state of ActivityD
activityDVars == <<mounted, bitmap, drawing, penPos, brush, lineWidth, rafId, rafQueue, grid28,
                   preds, topProto, overlayBox, scratchCrop, scratchOut, protos, gridSrc,
                   predsSrc, protoSrc, pendingEvents, frameEvents, frameRuns, adjusts, afterClear>>

pipeVars == <<mounted, bitmap, drawing, penPos, brush, lineWidth, rafId, rafQueue, grid28, preds,
              topProto, overlayBox, scratchCrop, scratchOut, protos, gridSrc, predsSrc,
              protoSrc, pendingEvents, frameEvents, frameRuns, adjusts, otherVars>>

-----------------------------------------------------------------------------
(* Bounds of the model *)

CanvasSide == 2      \* c.width = c.height of the drawing canvas at mount, in pixels
MaxBrush == 2        \* the brush slider offers the widths 1..MaxBrush, in pixels
MaxAdjust == 1       \* resizes and brush changes in one behaviour
NumPoints == 2       \* pointer positions: the first NumPoints pixels, row-major
MaxPending == 2      \* input events counted between two frames
NumFonts == 2        \* fonts of buildPrototypeBank that the bank is built from
MaxBox == 45         \* largest bounding-box side given to ScaledSize
MaxTestSide == 4     \* largest side of the small test bitmaps of SpecRun
MaxIndex == 30       \* reflect is given the indices -MaxIndex..MaxIndex
MaxSide == 5         \* and the lengths 1..MaxSide
MaxOpsSide == 2      \* largest side of the grids enumerated for the grid functions
MaxBlurSide == 3     \* largest side of the constant grids that are blurred

(* Program constants *)

H28 == 28
W28 == 28
Inner == 20          \* "scale longest side to 20px"
Unit == 255          \* channel range; one grid unit is 1/255

\* null, and a value that may be null: <<>> or <<v>>
Null == <<>>
Some(v) == <<v>>

-----------------------------------------------------------------------------
(* Small arithmetic helpers *)

Min2(a, b) == IF a < b THEN a ELSE b
Max2(a, b) == IF a > b THEN a ELSE b
Abs(a) == IF a < 0 THEN -a ELSE a

\* the element of a singleton.  The({e : x \in {v}}) is e with x bound to the
\* value of v: v is evaluated once, as the right-hand side of a const is
The(S) == CHOOSE r \in S : TRUE

SetMin(S) == CHOOSE m \in S : \A n \in S : m <= n
SetMax(S) == CHOOSE m \in S : \A n \in S : m >= n

RECURSIVE SumOver(_, _)
SumOver(f, S) ==
    IF S = {} THEN 0
    ELSE LET e == CHOOSE e \in S : TRUE IN f[e] + SumOver(f, S \ {e})

RECURSIVE SumSeq(_, _)
SumSeq(s, i) == IF i > Len(s) THEN 0 ELSE s[i] + SumSeq(s, i + 1)

-----------------------------------------------------------------------------
(* Pixels and grids *)

Transparent == <<0, 0, 0, 0>>        \* a canvas pixel never painted
White == <<255, 255, 255, 255>>
Black == <<0, 0, 0, 255>>
Faint == <<235, 235, 235, 255>>      \* ink 20/255 = 0.078, not above 0.08
Light == <<234, 234, 234, 255>>      \* ink 21/255 = 0.082, above 0.08

Height(g) == Cardinality(DOMAIN g)
Width(g) == Cardinality(DOMAIN g[0])

zeros(h, w) == [y \in 0..(h - 1) |-> [x \in 0..(w - 1) |-> 0]]

\* faulty variant: the grey value without the inversion (invert = false)
GrayOfNotInverted(px) == (299 * px[1] + 587 * px[2] + 114 * px[3]) \div 1000

\* 1 - (0.299 R + 0.587 G + 0.114 B)/255, in units of 1/255; alpha is not read
GrayOf(px) == (1000 * Unit - (299 * px[1] + 587 * px[2] + 114 * px[3])) \div 1000

fromImageDataToGray(img) ==
    [y \in DOMAIN img |-> [x \in DOMAIN img[y] |-> GrayOf(img[y][x])]]

\* sum of squared differences: s of the source before the division by h*w
mse(a, b) ==
    LET h == Height(a)
        w == Width(a)
        diff == {c \in (0..(h - 1)) \X (0..(w - 1)) : a[c[1]][c[2]] # b[c[1]][c[2]]}
        d(c) == Abs(a[c[1]][c[2]] - b[c[1]][c[2]])
        mags == {d(c) : c \in diff}
        part == [v \in mags |-> v * v * Cardinality({c \in diff : d(c) = v})]
    IN SumOver(part, mags)

\* the denominator of mse for h x w grids: 255 * 255 * h * w
MseDen(h, w) == Unit * Unit * h * w

-----------------------------------------------------------------------------
(* Feature maps: reflect padding, 3x3 convolution, normalisation, pooling *)

\* faulty variant: a negative index mirrored to -i
MirrorNoOffset(i, n) == IF i < 0 THEN -i ELSE 2 * n - i - 1

\* i < 0 ? -i - 1 : 2 * n - i - 1
Mirror(i, n) == IF i < 0 THEN -i - 1 ELSE 2 * n - i - 1

RECURSIVE reflectLoop(_, _)
reflectLoop(i, n) == IF i < 0 \/ i >= n THEN reflectLoop(Mirror(i, n), n) ELSE i

reflect(i, n) == IF n = 1 THEN 0 ELSE reflectLoop(i, n)

\* KERNELS, each weight in sixteenths (Blur3 is written in sixteenths)
KDen == 16
SobelX == <<<<-16, 0, 16>>, <<-32, 0, 32>>, <<-16, 0, 16>>>>
SobelY == <<<<-16, -32, -16>>, <<0, 0, 0>>, <<16, 32, 16>>>>
Laplace == <<<<0, 16, 0>>, <<16, -64, 16>>, <<0, 16, 0>>>>
Blur3 == <<<<1, 2, 1>>, <<2, 4, 2>>, <<1, 2, 1>>>>
KERNELS == [SobelX |-> SobelX, SobelY |-> SobelY, Laplace |-> Laplace, Blur3 |-> Blur3]

\* img[0].length, g[0].length: the first row of a grid without rows is
\* undefined, and reading its length throws a TypeError
Throws(g) == Height(g) = 0

\* what a call leaves: the value returned, or the exception thrown
Completion(g, value) ==
    IF Throws(g) THEN [threw |-> TRUE, value |-> <<>>]
    ELSE [threw |-> FALSE, value |-> value]

\* img[yy][xx] * k[ky + 1][kx + 1]
Tap(img, k, h, w, y, x, ky, kx) ==
    img[reflect(y + ky, h)][reflect(x + kx, w)] * k[ky + 2][kx + 2]

\* s of the source for the cell (y, x), the nine products added in loop order
ConvAt(img, k, h, w, y, x) ==
    Tap(img, k, h, w, y, x, -1, -1) + Tap(img, k, h, w, y, x, -1, 0)
    + Tap(img, k, h, w, y, x, -1, 1) + Tap(img, k, h, w, y, x, 0, -1)
    + Tap(img, k, h, w, y, x, 0, 0) + Tap(img, k, h, w, y, x, 0, 1)
    + Tap(img, k, h, w, y, x, 1, -1) + Tap(img, k, h, w, y, x, 1, 0)
    + Tap(img, k, h, w, y, x, 1, 1)

\* the convolution in exact arithmetic: for cells in units u the result is in
\* units u / 16
convolve3(img, k) ==
    The({[y \in 0..(h - 1) |-> [x \in 0..(w - 1) |-> ConvAt(img, k, h, w, y, x)]] :
            h \in {Height(img)}, w \in {Width(img)}})

\* 1.0 of a normalised cell, in units of 1e-4, rounding down
NormOne == 10000

\* faulty variant: the largest cell, without Math.abs
MaxAbsSigned(g) == SetMax({0} \cup {g[y][x] : y \in DOMAIN g, x \in DOMAIN g[0]})

\* m of the source: the largest absolute value of a cell
MaxAbs(g) == SetMax({0} \cup {Abs(g[y][x]) : y \in DOMAIN g, x \in DOMAIN g[0]})

\* faulty variant: the quotient truncated with the sign of the cell kept
normalizeAbsSigned(g) ==
    The({IF m = 0 THEN zeros(Height(g), Width(g))
         ELSE [y \in DOMAIN g |-> [x \in DOMAIN g[y] |->
                  IF g[y][x] < 0 THEN -((-g[y][x] * NormOne) \div m)
                  ELSE (g[y][x] * NormOne) \div m]] :
            m \in {MaxAbs(g)}})

\* Math.abs(g[y][x]) / m, or zeros when m < 1e-8: for cells that are whole
\* multiples of a unit above 1e-8 that is m = 0
normalizeAbs(g) ==
    The({IF m = 0 THEN zeros(Height(g), Width(g))
         ELSE [y \in DOMAIN g |-> [x \in DOMAIN g[y] |->
                  (Abs(g[y][x]) * NormOne) \div m]] :
            m \in {MaxAbs(g)}})

\* faulty variant: the maximum of the upper row of the block only
maxPool2UpperRow(g) ==
    [y \in 0..((Height(g) \div 2) - 1) |-> [x \in 0..((Width(g) \div 2) - 1) |->
        Max2(g[2 * y][2 * x], g[2 * y][2 * x + 1])]]

maxPool2(g) ==
    [y \in 0..((Height(g) \div 2) - 1) |-> [x \in 0..((Width(g) \div 2) - 1) |->
        Max2(Max2(g[2 * y][2 * x], g[2 * y][2 * x + 1]),
             Max2(g[2 * y + 1][2 * x], g[2 * y + 1][2 * x + 1]))]]

\* convolve3(g, KERNELS.X) for each kernel X, in units of 1/(255 * 16)
ConvMaps(g) == [name \in DOMAIN KERNELS |-> convolve3(g, KERNELS[name])]

\* the feature maps of the canonical grid g, in units of 1e-4
feat(g) ==
    The({The({[sx |-> sx, sy |-> sy,
               lap |-> normalizeAbs(c.Laplace), blur |-> normalizeAbs(c.Blur3),
               pool_sx |-> maxPool2(sx), pool_sy |-> maxPool2(sy)] :
                 sx \in {normalizeAbs(c.SobelX)}, sy \in {normalizeAbs(c.SobelY)}}) :
            c \in {ConvMaps(g)}})

-----------------------------------------------------------------------------
(* convolve3 in IEEE-754 double arithmetic, for grids of doubles >= 0 and    *)
(* kernels whose weights are powers of two.  A double is [e, hi, lo]: its    *)
(* 53-bit significand is hi * 2^27 + lo with 2^25 <= hi < 2^26 and           *)
(* 0 <= lo < 2^27, its value significand * 2^(e - 52); zero has hi = 0.      *)
(* Exponents stay far from overflow and underflow.                           *)

SigBits == 53        \* bits of the significand of a double
LoBits == 27         \* of which the limb lo holds the last 27
LoOne == 134217728   \* 2^27
HiOne == 67108864    \* 2^26

DZero == [e |-> 0, hi |-> 0, lo |-> 0]

\* the double 0x1.hhhhhhhhhhhhhp+e given by its 13 hexadecimal digits
FromHex(hex, e) ==
    [e |-> e,
     hi |-> (HiOne \div 2)
            + 2 * (((((hex[1] * 16 + hex[2]) * 16 + hex[3]) * 16 + hex[4]) * 16 + hex[5]) * 16 + hex[6])
            + (hex[7] \div 8),
     lo |-> (hex[7] % 8) * 16777216
            + (((((hex[8] * 16 + hex[9]) * 16 + hex[10]) * 16 + hex[11]) * 16 + hex[12]) * 16 + hex[13])]

\* the bit of weight 2^p of the significand of x, and whether a bit below it
\* is set
BitAt(x, p) ==
    IF p < 0 \/ p >= SigBits THEN 0
    ELSE IF p < LoBits THEN (x.lo \div (2 ^ p)) % 2
    ELSE (x.hi \div (2 ^ (p - LoBits))) % 2

AnyBelow(x, p) ==
    IF p <= 0 THEN FALSE
    ELSE IF p <= LoBits THEN x.lo % (2 ^ p) # 0
    ELSE IF p >= SigBits THEN TRUE
    ELSE x.lo # 0 \/ x.hi % (2 ^ (p - LoBits)) # 0

\* the significand of x shifted right by d bits, for 0 <= d <= 54
ShiftRight(x, d) ==
    IF d <= LoBits
    THEN [hi |-> x.hi \div (2 ^ d),
          lo |-> (x.lo \div (2 ^ d)) + (x.hi % (2 ^ d)) * (2 ^ (LoBits - d))]
    ELSE [hi |-> 0, lo |-> x.hi \div (2 ^ (d - LoBits))]

\* faulty variant: the bits past the 53rd dropped (round towards zero)
RoundTruncate(e, hi, lo, guard, sticky) == [e |-> e, hi |-> hi, lo |-> lo]

\* round to nearest, ties to even: guard is the first bit dropped, sticky
\* whether a later one is set
Round(e, hi, lo, guard, sticky) ==
    IF ~(guard = 1 /\ (sticky \/ lo % 2 = 1)) THEN [e |-> e, hi |-> hi, lo |-> lo]
    ELSE IF lo + 1 < LoOne THEN [e |-> e, hi |-> hi, lo |-> lo + 1]
    ELSE IF hi + 1 < HiOne THEN [e |-> e, hi |-> hi + 1, lo |-> 0]
    ELSE [e |-> e + 1, hi |-> HiOne \div 2, lo |-> 0]

\* a + b of two doubles >= 0, correctly rounded: the smaller operand is
\* shifted to the exponent of the larger, the significands are added, a sum
\* of 54 bits is shifted once more, and the sum is rounded
FAdd(a, b) ==
    IF a.hi = 0 THEN b
    ELSE IF b.hi = 0 THEN a
    ELSE The({IF d > SigBits + 1 THEN big
              ELSE The({IF shi >= HiOne
                        THEN Round(big.e + 1, shi \div 2,
                                   (slo \div 2) + (shi % 2) * (LoOne \div 2),
                                   slo % 2,
                                   BitAt(small, d - 1) = 1 \/ AnyBelow(small, d - 1))
                        ELSE Round(big.e, shi, slo,
                                   BitAt(small, d - 1), AnyBelow(small, d - 1)) :
                           shi \in {big.hi + q.hi + ((big.lo + q.lo) \div LoOne)},
                           slo \in {(big.lo + q.lo) % LoOne}}) :
                big \in {IF a.e >= b.e THEN a ELSE b},
                small \in {IF a.e >= b.e THEN b ELSE a},
                d \in {Abs(a.e - b.e)},
                q \in {IF Abs(a.e - b.e) > SigBits + 1 THEN DZero
                       ELSE ShiftRight(IF a.e >= b.e THEN b ELSE a, Abs(a.e - b.e))}})

\* x * 2^j: the product of a double and a weight that is a power of two is
\* exact
FScale(x, j) == IF x.hi = 0 THEN x ELSE [x EXCEPT !.e = x.e + j]

\* KERNELS.Blur3 by the exponents of its weights: 1/16, 2/16 and 4/16 are
\* 2^-4, 2^-3 and 2^-2
Blur3Exp == <<<<-4, -3, -4>>, <<-3, -2, -3>>, <<-4, -3, -4>>>>

\* s after the taps 1..t of the cell (y, x), in loop order: s starts at 0
RECURSIVE ConvAtDouble(_, _, _, _, _, _, _)
ConvAtDouble(img, kexp, h, w, y, x, t) ==
    IF t = 0 THEN DZero
    ELSE The({FAdd(s, p) :
                 s \in {ConvAtDouble(img, kexp, h, w, y, x, t - 1)},
                 p \in {FScale(img[reflect(y + ((t - 1) \div 3) - 1, h)]
                                  [reflect(x + ((t - 1) % 3) - 1, w)],
                               kexp[((t - 1) \div 3) + 1][((t - 1) % 3) + 1])}})

convolve3Double(img, kexp) ==
    The({[y \in 0..(h - 1) |-> [x \in 0..(w - 1) |-> ConvAtDouble(img, kexp, h, w, y, x, 9)]] :
            h \in {Height(img)}, w \in {Width(img)}})

-----------------------------------------------------------------------------
(* preprocessTo28x28 *)

\* faulty variant: a threshold of 0.05
IsInkLow(v) == 100 * v > 5 * Unit

\* gray[y][x] > 0.08
IsInk(v) == 100 * v > 8 * Unit

InkCells(gray) ==
    {c \in (0..(Height(gray) - 1)) \X (0..(Width(gray) - 1)) : IsInk(gray[c[1]][c[2]])}

\* Math.round(n / d) for n >= 0, d > 0: floor(n/d + 1/2)
RoundDiv(n, d) == (2 * n + d) \div (2 * d)

\* faulty variant: the rounded sides without the minimum of 1
ScaledSizeNoFloor(bw, bh) ==
    [sw |-> RoundDiv(bw * Inner, Max2(bw, bh)),
     sh |-> RoundDiv(bh * Inner, Max2(bw, bh))]

\* sw, sh of the source: scale = 20 / max(bw, bh), each side rounded, at least 1
ScaledSize(bw, bh) ==
    LET m == Max2(bw, bh)
    IN [sw |-> Max2(1, RoundDiv(bw * Inner, m)),
        sh |-> Max2(1, RoundDiv(bh * Inner, m))]

\* ctx.drawImage(src, sx, sy, sw, sh, 0, 0, dw, dh): the source pixel under the
\* centre of destination pixel (i, j)
SampleAt(i, n, lo, len) == lo + ((2 * i + 1) * len) \div (2 * n)

\* source-over compositing of pixel s onto pixel d (straight alpha): an opaque
\* s replaces d, a transparent s leaves d, and otherwise the alpha is
\* ao = sa + da*(255 - sa)/255 and the colour (s*sa*255 + d*da*(255 - sa))/(255*ao)
Composite(s, d) ==
    IF s[4] = 255 THEN s
    ELSE IF s[4] = 0 THEN d
    ELSE The({[k \in 1..4 |->
                  IF k = 4 THEN ao
                  ELSE (s[k] * s[4] * 255 + d[k] * d[4] * (255 - s[4])) \div (255 * ao)] :
                ao \in {s[4] + (d[4] * (255 - s[4])) \div 255}})

Uniform(h, w, px) == [y \in 0..(h - 1) |-> [x \in 0..(w - 1) |-> px]]

\* document.createElement("canvas"): 300 x 150 pixels, transparent black
NewCanvas == Uniform(150, 300, Transparent)

\* faulty variant: the scratch canvas keeps the pixels of the earlier run
\* that fall inside its new size
ClearedKeepingOld(canvas, w, h) ==
    [y \in 0..(h - 1) |-> [x \in 0..(w - 1) |->
        IF y < Height(canvas) /\ x < Width(canvas) THEN canvas[y][x] ELSE Transparent]]

\* canvas.width = w; canvas.height = h (either assignment resets the bitmap
\* to transparent black), and for scratchCrop the clearRect(0, 0, w, h)
Cleared(canvas, w, h) == Uniform(h, w, Transparent)

\* ctx.fillStyle = "#fff"; ctx.fillRect(0, 0, w, h) on the whole canvas
FillWhite(canvas) ==
    [y \in DOMAIN canvas |-> [x \in DOMAIN canvas[y] |-> Composite(White, canvas[y][x])]]

\* ctx.drawImage(src, sx, sy, sw, sh, 0, 0, dw, dh) on a dh x dw canvas
DrawImageScaled(canvas, src, sx, sy, sw, sh, dw, dh) ==
    [j \in 0..(dh - 1) |-> [i \in 0..(dw - 1) |->
        Composite(src[SampleAt(j, dh, sy, sh)][SampleAt(i, dw, sx, sw)], canvas[j][i])]]

\* ctx.drawImage(src, ox, oy)
DrawImageAt(canvas, src, ox, oy) ==
    [y \in DOMAIN canvas |-> [x \in DOMAIN canvas[y] |->
        IF /\ ox <= x /\ x < ox + Width(src) /\ oy <= y /\ y < oy + Height(src)
        THEN Composite(src[y - oy][x - ox], canvas[y][x])
        ELSE canvas[y][x]]]

\* faulty variant: the buffer pasted at the top-left corner
PasteOffsetCorner(side, s) == 0

\* Math.floor((W28 - sw) / 2), Math.floor((H28 - sh) / 2)
PasteOffset(side, s) == (side - s) \div 2

\* the grid and the bounding box returned, and the two scratch canvases as the
\* call leaves them
preprocessTo28x28(source, crop0, out0) ==
    LET h == Height(source)
        w == Width(source)
        gray == fromImageDataToGray(source)
        ink == InkCells(gray)
        minx == SetMin({c[2] : c \in ink} \cup {w})
        miny == SetMin({c[1] : c \in ink} \cup {h})
        maxx == SetMax({c[2] : c \in ink} \cup {-1})
        maxy == SetMax({c[1] : c \in ink} \cup {-1})
        bw == maxx - minx + 1
        bh == maxy - miny + 1
        sz == ScaledSize(bw, bh)
        ox == PasteOffset(W28, sz.sw)
        oy == PasteOffset(H28, sz.sh)
    IN IF maxx < 0
       THEN [grid |-> zeros(H28, W28), bbox |-> Null,
             scratchCrop |-> crop0, scratchOut |-> out0]
       ELSE The({The({[grid |-> fromImageDataToGray(outImg),
                       bbox |-> Some([x |-> minx, y |-> miny, w |-> bw, h |-> bh]),
                       scratchCrop |-> crop, scratchOut |-> outImg] :
                   outImg \in {DrawImageAt(FillWhite(Cleared(out0, W28, H28)),
                                           crop, ox, oy)}}) :
               crop \in {DrawImageScaled(Cleared(crop0, sz.sw, sz.sh), source,
                                         minx, miny, bw, bh, sz.sw, sz.sh)}})

-----------------------------------------------------------------------------
(* Fixed-point arithmetic for Math.sqrt, Math.exp and the softmax divisions *)

One == 10000000       \* 1.0 in units of 1e-7 (exponents and exp values)
POne == 100000000     \* 1.0 in units of 1e-8 (probabilities)

\* <<floor(a*b/c), (a*b) mod c>> without leaving 32 bits, two bits of b at a
\* time (0 <= a, b; 0 < c; 7*c < 2^31)
RECURSIVE MulDivRec(_, _, _)
MulDivRec(a, b, c) ==
    IF b = 0 THEN <<0, 0>>
    ELSE LET hi == MulDivRec(a, b \div 4, c)
             rem == 4 * hi[2] + (b % 4) * (a % c)
             quo == 4 * hi[1] + (b % 4) * (a \div c)
         IN <<quo + rem \div c, rem % c>>

MulDiv(a, b, c) == IF a = 0 \/ c = 0 THEN <<0, 0>> ELSE MulDivRec(a, b, c)

\* floor(sqrt(n)) by Newton's iteration from above
RECURSIVE ISqrtFrom(_, _)
ISqrtFrom(n, x) ==
    LET y == (x + n \div x) \div 2
    IN IF y >= x THEN x ELSE ISqrtFrom(n, y)

ISqrt(n) == IF n = 0 THEN 0 ELSE ISqrtFrom(n, Min2(n, 46340))

\* a*b for a, b in units of 1e-7, both at most One
FxMul(a, b) ==
    LET ah == a \div 10000
        al == a % 10000
        bh == b \div 10000
        bl == b % 10000
    IN ah * bh * 10 + (ah * bl + al * bh) \div 1000 + (al * bl) \div One

\* the series 1 - y + y^2/2 - y^3/6 + ... for 0 <= y <= One/2; term is y^n/n!
RECURSIVE ExpSeries(_, _, _, _)
ExpSeries(y, term, n, acc) ==
    IF term = 0 \/ n > 12 THEN acc
    ELSE LET next == FxMul(term, y) \div (n + 1)
         IN ExpSeries(y, next, n + 1,
                      IF n % 2 = 1 THEN acc - term ELSE acc + term)

\* Math.exp(-x) for x >= 0 in units of 1e-7; below 1e-7 it is 0 here
RECURSIVE ExpNeg(_)
ExpNeg(x) ==
    IF x <= 0 THEN One
    ELSE IF x >= 17 * One THEN 0
    ELSE IF 2 * x > One
         THEN LET r == ExpNeg(x \div 2) IN FxMul(r, r)
         ELSE ExpSeries(x, x, 1, One)

-----------------------------------------------------------------------------
(* The prototype bank *)

allFonts == <<"Arial", "Courier New", "Georgia", "system-ui", "Helvetica">>
fonts == SubSeq(allFonts, 1, NumFonts)
sizes == <<20>>
offsets == <<0>>

FontIndex(f) == CHOOSE i \in 1..Len(allFonts) : allFonts[i] = f

\* the segments lit for each digit, as in a seven-segment display
Segments(d) ==
    CASE d = 0 -> {"a", "b", "c", "d", "e", "f"}
      [] d = 1 -> {"b", "c"}
      [] d = 2 -> {"a", "b", "g", "e", "d"}
      [] d = 3 -> {"a", "b", "g", "c", "d"}
      [] d = 4 -> {"f", "g", "b", "c"}
      [] d = 5 -> {"a", "f", "g", "c", "d"}
      [] d = 6 -> {"a", "f", "g", "e", "c", "d"}
      [] d = 7 -> {"a", "b", "c"}
      [] d = 8 -> {"a", "b", "c", "d", "e", "f", "g"}
      [] d = 9 -> {"a", "b", "c", "d", "f", "g"}

\* ctx.fillText(String(d), W28/2 + dx, H28/2 + dy) in bold `size`px `font`:
\* the glyph renderer of the host, here a seven-segment glyph whose stroke
\* width grows with the font's index
GlyphInk(d, font, size, dx, dy, y, x) ==
    LET t == FontIndex(font) + 1
        gh == size - 2
        gw == size \div 2
        ry == y - (H28 \div 2 + dy - gh \div 2)
        rx == x - (W28 \div 2 + dx - gw \div 2)
        mid == gh \div 2
        seg == Segments(d)
    IN /\ 0 <= ry /\ ry < gh /\ 0 <= rx /\ rx < gw
       /\ \/ "a" \in seg /\ ry < t
          \/ "d" \in seg /\ ry >= gh - t
          \/ "g" \in seg /\ mid - t \div 2 <= ry /\ ry < mid - t \div 2 + t
          \/ "f" \in seg /\ rx < t /\ ry <= mid
          \/ "b" \in seg /\ rx >= gw - t /\ ry <= mid
          \/ "e" \in seg /\ rx < t /\ ry >= mid
          \/ "c" \in seg /\ rx >= gw - t /\ ry >= mid

drawDigitPrototype(d, font, size, dx, dy) ==
    LET img == [y \in 0..(H28 - 1) |-> [x \in 0..(W28 - 1) |->
                  IF GlyphInk(d, font, size, dx, dy, y, x) THEN Black ELSE White]]
    IN fromImageDataToGray(img)

\* the nested loops over fonts, sizes, offsets (ox) and offsets (oy), in order
ProtoParams ==
    [k \in 1..(Len(fonts) * Len(sizes) * Len(offsets) * Len(offsets)) |->
        LET i == k - 1
            no == Len(offsets)
            ns == Len(sizes)
        IN [f |-> fonts[(i \div (no * no * ns)) + 1],
            s |-> sizes[((i \div (no * no)) % ns) + 1],
            ox |-> offsets[((i \div no) % no) + 1],
            oy |-> offsets[(i % no) + 1]]]

buildPrototypeBank ==
    [d \in 0..9 |->
        [k \in 1..Len(ProtoParams) |->
            [digit |-> d,
             grid |-> drawDigitPrototype(d, ProtoParams[k].f, ProtoParams[k].s,
                                         ProtoParams[k].ox, ProtoParams[k].oy)]]]

-----------------------------------------------------------------------------
(* processNow: classification by prototype MSE *)

BIG == 2000000000          \* 1e9, the initial dists[d]: above every mse
Infinity == 2147483647     \* the initial bestDist

\* the prototypes in the order the loops visit them: d = 0..9, then arr order
RECURSIVE ProtoList(_, _)
ProtoList(bank, d) == IF d > 9 THEN <<>> ELSE bank[d] \o ProtoList(bank, d + 1)

\* faulty variant: dists[d] takes the distance of the last prototype of the class
DistStepLast(st, p, dist) ==
    [dists |-> [st.dists EXCEPT ![p.digit] = dist],
     bestDist |-> IF dist < st.bestDist THEN dist ELSE st.bestDist,
     bestGrid |-> IF dist < st.bestDist THEN Some(p.grid) ELSE st.bestGrid]

\* the loop body for prototype p at distance dist; st is [dists, bestDist, bestGrid]
DistStep(st, p, dist) ==
    [dists |-> [st.dists EXCEPT ![p.digit] = IF dist < @ THEN dist ELSE @],
     bestDist |-> IF dist < st.bestDist THEN dist ELSE st.bestDist,
     bestGrid |-> IF dist < st.bestDist THEN Some(p.grid) ELSE st.bestGrid]

RECURSIVE DistLoop(_, _, _, _)
DistLoop(grid, ps, i, st) ==
    IF i > Len(ps) THEN st
    ELSE DistLoop(grid, ps, i + 1, DistStep(st, ps[i], mse(grid, ps[i].grid)))

\* alpha = min(120, max(30, 60 / sqrt(spread + 1e-9))) in units of 1/1000, for
\* spread = max(1e-9, r / den); the 1e-9 terms decide only the case r = 0
Alpha(r, den) ==
    IF r >= 4 * den THEN 30000
    ELSE IF 4 * r < den THEN 120000
    ELSE 60 * ISqrt(MulDiv(den, 1000000, r)[1])

\* alpha * (dd - min) in units of 1e-7, for dd - min = delta / den; from 17 on
\* the exponential is below 1e-7
Exponent(alpha, delta, den) ==
    IF delta >= den THEN 17 * One
    ELSE Min2(17 * One, MulDiv(alpha * 10000, delta, den)[1])

\* faulty variant: the comparator a.prob - b.prob
BeforeAscending(b, a) == b.prob < a.prob

\* b.prob - a.prob > 0: b is to come before a
Before(b, a) == b.prob > a.prob

\* faulty variant: predArr is published unsorted
SortPredsNone(arr) == arr

\* arr.sort((a, b) => b.prob - a.prob): the sort is stable, so the element at
\* index i ends after those that are to come before it and after the earlier
\* elements that compare equal to it
SortPreds(arr) ==
    LET n == Len(arr)
        rank(i) == 1 + Cardinality({j \in 1..n :
                         \/ Before(arr[j], arr[i])
                         \/ (j < i /\ ~Before(arr[i], arr[j]))})
    IN [k \in 1..n |-> arr[CHOOSE i \in 1..n : rank(i) = k]]

\* faulty variant: the exponentials are published without the division by Z
ProbUnnormalised(e, Z) == MulDiv(e, POne, One)[1]

\* e / Z, in units of 1e-8
Prob(e, Z) == MulDiv(e, POne, Z)[1]

\* faulty variant: the logits exponentiated without subtracting maxL
MinDistZero(dists) == 0

\* Math.min(...dists) and Math.max(...dists) - Math.min(...dists)
MinDist(dists) == SetMin({dists[d] : d \in 0..9})
Spread(dists) == SetMax({dists[d] : d \in 0..9}) - MinDist(dists)

\* exps[i] = exp(logits[i] - maxL) = exp(-alpha * (dists[i] - min)); the
\* source's index i is the model's i - 1
Exps(dists, den) ==
    The({[i \in 1..10 |-> ExpNeg(Exponent(alpha, dists[i - 1] - minD, den))] :
            alpha \in {Alpha(Spread(dists), den)}, minD \in {MinDist(dists)}})

\* probs.map((p, i) => ({ digit: i, prob: p, dist: dists[i] }))
PredArr(dists, exps, Z) ==
    [i \in 1..10 |-> [digit |-> i - 1, prob |-> Prob(exps[i], Z), dist |-> dists[i - 1]]]

\* dists -> predArr, sorted
Softmax(dists, den) ==
    The({The({SortPreds(predArr) : predArr \in {PredArr(dists, exps, SumSeq(exps, 1))}}) :
            exps \in {Exps(dists, den)}})

Classify(grid, bank) ==
    The({[preds |-> Softmax(st.dists, MseDen(Height(grid), Width(grid))),
          bestGrid |-> st.bestGrid] :
            st \in {DistLoop(grid, ProtoList(bank, 0), 1,
                             [dists |-> [d \in 0..9 |-> BIG],
                              bestDist |-> Infinity,
                              bestGrid |-> Null])}})

\* protos.get(d)! is undefined for a class the bank lacks, and the loop
\* `for (const p of arr)` over it throws a TypeError
MissingClass(bank) == \E d \in 0..9 : d \notin DOMAIN bank

\* the classification with any bank: the exception thrown before setPreds, or
\* the predictions and the closest prototype that are published
ClassifyOutcome(grid, bank) ==
    IF MissingClass(bank) THEN [threw |-> TRUE, preds |-> <<>>, bestGrid |-> Null]
    ELSE [threw |-> FALSE] @@ Classify(grid, bank)

\* what one run of processNow computes from the canvas and the bank
RunPipeline(source, bank, crop0, out0) ==
    The({The({[grid |-> pre.grid, bbox |-> pre.bbox,
               preds |-> cls.preds, bestGrid |-> cls.bestGrid,
               scratchCrop |-> pre.scratchCrop, scratchOut |-> pre.scratchOut] :
                 cls \in {Classify(pre.grid, bank)}}) :
            pre \in {preprocessTo28x28(source, crop0, out0)}})

-----------------------------------------------------------------------------
(* The mounted component: canvas, pointer listeners, rAF throttle *)

\* the pixel <<y, x>> under pointer position k
PointCell(k) == <<k \div CanvasSide, k % CanvasSide>>
Points == {PointCell(k) : k \in 0..(NumPoints - 1)}

\* the pixels of a side x side canvas covered by the stroke from p to q with
\* a brush b pixels wide and round caps: those within b/2 of the segment
LineCells(p, q, b, side) ==
    LET dy == q[1] - p[1]
        dx == q[2] - p[2]
        r == b \div 2
    IN {c \in (0..(side - 1)) \X (0..(side - 1)) :
          /\ Min2(p[1], q[1]) - r <= c[1] /\ c[1] <= Max2(p[1], q[1]) + r
          /\ Min2(p[2], q[2]) - r <= c[2] /\ c[2] <= Max2(p[2], q[2]) + r
          /\ 2 * Abs(dx * (c[1] - p[1]) - dy * (c[2] - p[2])) <= b * Max2(Abs(dx), Abs(dy))}

\* ctx.lineTo(q); ctx.stroke() with strokeStyle "#000" and lineWidth b
Stroke(bmp, p, q, b) ==
    [y \in DOMAIN bmp |-> [x \in DOMAIN bmp[y] |->
        IF <<y, x>> \in LineCells(p, q, b, Height(bmp)) THEN Black ELSE bmp[y][x]]]

\* applySize(size) with a device pixel ratio of 1: the canvas is reset to
\* size x size and the old bitmap is drawn back scaled to it
applySize(bmp, size) ==
    [y \in 0..(size - 1) |-> [x \in 0..(size - 1) |->
        bmp[SampleAt(y, size, 0, Height(bmp))][SampleAt(x, size, 0, Width(bmp))]]]

\* faulty variant: no coalescing, every call schedules a callback
requestProcessNoCoalesce(id, queue) ==
    <<Len(queue) + 1, Append(queue, Len(queue) + 1)>>

\* faulty variant: the guard inverted, if (!rafId.current) return
requestProcessInverted(id, queue) ==
    IF id = 0 THEN <<id, queue>>
    ELSE <<Len(queue) + 1, Append(queue, Len(queue) + 1)>>

\* requestProcess: <<rafId.current, the browser's callback list>> afterwards
requestProcess(id, queue) ==
    IF id # 0 THEN <<id, queue>>
    ELSE <<Len(queue) + 1, Append(queue, Len(queue) + 1)>>

\* faulty variant: the run returns before setTopProto
processNowStaleProto(source, bank, crop0, out0) ==
    The({[grid28 |-> r.grid, overlayBox |-> r.bbox, preds |-> r.preds,
          topProto |-> topProto,
          scratchCrop |-> r.scratchCrop, scratchOut |-> r.scratchOut,
          gridSrc |-> Some(source), predsSrc |-> Some(source), protoSrc |-> protoSrc] :
            r \in {RunPipeline(source, bank, crop0, out0)}})

\* processNow with drawRef.current set (without it, it returns at once): the
\* state it publishes
processNow(source, bank, crop0, out0) ==
    The({[grid28 |-> r.grid, overlayBox |-> r.bbox, preds |-> r.preds,
          topProto |-> r.bestGrid,
          scratchCrop |-> r.scratchCrop, scratchOut |-> r.scratchOut,
          gridSrc |-> Some(source), predsSrc |-> Some(source), protoSrc |-> Some(source)] :
            r \in {RunPipeline(source, bank, crop0, out0)}})

ActivityDInit ==
    /\ mounted = TRUE
    /\ bitmap = [y \in 0..(CanvasSide - 1) |-> [x \in 0..(CanvasSide - 1) |-> Transparent]]
    /\ drawing = FALSE
    /\ penPos = <<0, 0>>
    /\ brush = 1
    /\ lineWidth = 1
    /\ rafId = 0
    /\ rafQueue = <<>>
    /\ grid28 = zeros(H28, W28)
    /\ preds = <<>>
    /\ topProto = Null
    /\ overlayBox = Null
    /\ scratchCrop = NewCanvas
    /\ scratchOut = NewCanvas
    /\ protos = buildPrototypeBank
    /\ gridSrc = Null /\ predsSrc = Null /\ protoSrc = Null
    /\ pendingEvents = 0 /\ frameEvents = 0 /\ frameRuns = 0
    /\ adjusts = 0
    /\ afterClear = FALSE

\* ActivityD is not on the page
ActivityDAbsent ==
    /\ mounted = FALSE
    /\ bitmap = <<>>
    /\ drawing = FALSE
    /\ penPos = Null
    /\ brush = 1
    /\ lineWidth = 1
    /\ rafId = 0
    /\ rafQueue = <<>>
    /\ grid28 = <<>>
    /\ preds = <<>>
    /\ topProto = Null
    /\ overlayBox = Null
    /\ scratchCrop = <<>>
    /\ scratchOut = <<>>
    /\ protos = <<>>
    /\ gridSrc = Null /\ predsSrc = Null /\ protoSrc = Null
    /\ pendingEvents = 0 /\ frameEvents = 0 /\ frameRuns = 0
    /\ adjusts = 0
    /\ afterClear = FALSE

-----------------------------------------------------------------------------
(* ActivityPage and ActivityLoader: activities are opened by code *)

\* A text is a sequence of characters, each a one-character string.

MaxText == 12        \* longest text typed into the code field

Lower == <<"a", "b", "c", "d", "e", "f", "g", "h", "i", "j", "k", "l", "m",
           "n", "o", "p", "q", "r", "s", "t", "u", "v", "w", "x", "y", "z">>
Upper == <<"A", "B", "C", "D", "E", "F", "G", "H", "I", "J", "K", "L", "M",
           "N", "O", "P", "Q", "R", "S", "T", "U", "V", "W", "X", "Y", "Z">>

\* faulty variant: the text is compared as typed
toUpperCaseNone(s) == s

\* String.prototype.toUpperCase on letters, digits and punctuation
toUpperCase(s) ==
    [i \in 1..Len(s) |->
        IF \E k \in 1..26 : Lower[k] = s[i]
        THEN Upper[CHOOSE k \in 1..26 : Lower[k] = s[i]]
        ELSE s[i]]

IsSpace(c) == c \in {" ", "\t", "\n"}

RECURSIVE trimStart(_)
trimStart(s) == IF s # <<>> /\ IsSpace(Head(s)) THEN trimStart(Tail(s)) ELSE s

RECURSIVE trimEnd(_)
trimEnd(s) ==
    IF s # <<>> /\ IsSpace(s[Len(s)]) THEN trimEnd(SubSeq(s, 1, Len(s) - 1)) ELSE s

\* String.prototype.trim
trim(s) == trimEnd(trimStart(s))

\* String.prototype.split(sep) for a one-character separator: the pieces
\* between the separators, empty pieces included
RECURSIVE splitFrom(_, _, _, _)
splitFrom(s, sep, i, piece) ==
    IF i > Len(s) THEN <<piece>>
    ELSE IF s[i] = sep THEN <<piece>> \o splitFrom(s, sep, i + 1, <<>>)
    ELSE splitFrom(s, sep, i + 1, Append(piece, s[i]))

split(s, sep) == splitFrom(s, sep, 1, <<>>)

\* the names of componentMap
ActivityName(letter) == <<"A", "c", "t", "i", "v", "i", "t", "y", letter>>
KnownActivities == {ActivityName(l) : l \in {"A", "B", "C", "D", "E"}}

\* componentMap is an object literal: besides its own five properties a
\* lookup finds what it inherits from Object.prototype
ProtoConstructor == <<"c", "o", "n", "s", "t", "r", "u", "c", "t", "o", "r">>
ProtoToString == <<"t", "o", "S", "t", "r", "i", "n", "g">>
ProtoValueOf == <<"v", "a", "l", "u", "e", "O", "f">>
ProtoProto == <<"_", "_", "p", "r", "o", "t", "o", "_", "_">>
InheritedFunctions == {ProtoConstructor, ProtoToString, ProtoValueOf}
InheritedNames == InheritedFunctions \cup {ProtoProto}

\* .map(trim).filter(Boolean) of the pieces of raw.split(",")
Pairs(raw) ==
    SelectSeq([i \in 1..Len(split(raw, ",")) |-> trim(split(raw, ",")[i])],
              LAMBDA piece : piece # <<>>)

\* the reducer: const [code, name] = pair.split(":").map(trim);
\* if (code && name) acc[code.toUpperCase()] = name
AddPair(acc, pair) ==
    LET parts == [i \in 1..Len(split(pair, ":")) |-> trim(split(pair, ":")[i])]
        code == parts[1]
    IN IF Len(parts) >= 2 /\ code # <<>> /\ parts[2] # <<>>
       THEN [k \in DOMAIN acc \cup {toUpperCase(code)} |->
                IF k = toUpperCase(code) THEN parts[2] ELSE acc[k]]
       ELSE acc

RECURSIVE reducePairs(_, _, _)
reducePairs(acc, pairs, i) ==
    IF i > Len(pairs) THEN acc ELSE reducePairs(AddPair(acc, pairs[i]), pairs, i + 1)

\* the own properties of the object parseCodes returns: code -> name
parseCodes(raw) == reducePairs([k \in {} |-> <<>>], Pairs(raw), 1)

\* const compName = codes[key]; const Comp = compName ? componentMap[compName]
\* : undefined.  codes inherits from Object.prototype as well: an inherited
\* member is truthy but names no property of componentMap
Comp(codes, key) ==
    IF key \in DOMAIN codes
    THEN IF codes[key] \in KnownActivities
         THEN [type |-> "function", component |-> codes[key]]
         ELSE IF codes[key] \in InheritedFunctions
         THEN [type |-> "function", component |-> <<"Object.prototype">> \o codes[key]]
         ELSE IF codes[key] = ProtoProto
         THEN [type |-> "object", component |-> <<"Object.prototype">>]
         ELSE [type |-> "undefined", component |-> <<>>]
    ELSE [type |-> "undefined", component |-> <<>>]

\* the node handed to onLoaded, or Null: <C /> for a function, the object
\* itself for an object
NodeOf(comp) ==
    IF comp.type = "function" THEN Some([element |-> comp.component])
    ELSE IF comp.type = "object" THEN Some([object |-> comp.component])
    ELSE Null

InvalidCode == "Invalid code. Please try again."

\* texts and configurations of the model
CodeAB == <<"a", "b">>
CodeB1 == <<"B", "1">>
Inputs ==
    {<<>>, CodeAB, <<"A", "B">>, <<" ", "a", "B", "\t">>, <<"a", " ", "b">>, <<"b", "1">>,
     CodeB1, <<"a">>, <<"x">>, ProtoConstructor, ProtoProto, ActivityName("A")}

Configs ==
    {<<>>,
     \* " ab : ActivityA , B1:ActivityD"
     <<" ">> \o CodeAB \o <<" ", ":", " ">> \o ActivityName("A") \o <<" ", ",", " ">>
         \o CodeB1 \o <<":">> \o ActivityName("D"),
     \* "ab:ActivityB,AB:ActivityE": the later pair replaces the earlier
     CodeAB \o <<":">> \o ActivityName("B") \o <<",">>
         \o <<"A", "B">> \o <<":">> \o ActivityName("E"),
     \* "ab:ActivityC:x,,b1:,:ActivityA,x"
     CodeAB \o <<":">> \o ActivityName("C") \o <<":", "x", ",", ",", "b", "1", ":", ",", ":">>
         \o ActivityName("A") \o <<",", "x">>,
     \* "ab:ActivityZ,b1:activitya": names that are no component
     CodeAB \o <<":">> \o ActivityName("Z") \o <<",", "b", "1", ":", "a">>
         \o Tail(ActivityName("a")),
     \* "ab:constructor,b1:__proto__"
     CodeAB \o <<":">> \o ProtoConstructor \o <<",", "b", "1", ":">> \o ProtoProto,
     \* "x:toString"
     <<"x", ":">> \o ProtoToString}

NotLoader == UNCHANGED <<activityDVars, arg, ret, bombVars, diffusionVars, wordVars>>

LoaderInit ==
    /\ viteCodes = <<>>
    /\ input = <<>>
    /\ error = Null
    /\ activeNode = Null

\* onChange of the code field
SetInput ==
    /\ activeNode = Null
    /\ \E t \in Inputs : Len(t) <= MaxText /\ input' = t
    /\ UNCHANGED <<viteCodes, error, activeNode>>
    /\ NotLoader

\* handleSubmit: onLoaded is setActiveNode, and with a node ActivityPage
\* renders the node in place of the loader, whose state is dropped
handleSubmit ==
    /\ activeNode = Null
    /\ \E node \in {NodeOf(Comp(parseCodes(viteCodes), toUpperCase(trim(input))))} :
          IF node # Null
          THEN /\ activeNode' = node
               /\ input' = <<>>
               /\ error' = Null
          ELSE /\ activeNode' = Null
               /\ error' = Some(InvalidCode)
               /\ UNCHANGED input
    /\ UNCHANGED viteCodes
    /\ NotLoader

\* "Load another activity": setActiveNode(null), and a new ActivityLoader mounts
LoadAnother ==
    /\ activeNode # Null
    /\ activeNode' = Null
    /\ input' = <<>>
    /\ error' = Null
    /\ UNCHANGED viteCodes
    /\ NotLoader

NextLoader == SetInput \/ handleSubmit \/ LoadAnother

\* randInt(min, max) is any integer of min..max, as Math.random falls; the
\* model draws the least and the greatest
randInt(min, max) == {min, max}

-----------------------------------------------------------------------------
(* ActivityC, "Diffusion Grid" *)

MaxRoundsC == 2      \* rounds begun in one behaviour

\* CONFIG.steps, CONFIG.winMSE (0.010, in thousandths), the least value of the
\* T slider and PRESETS.Optimal.T
steps == 12
winMSE == 10
sliderMinT == 6
OptimalT == 16

\* mse(x, target) of an image x that random noise went into, in thousandths:
\* under, at and over the threshold
MseValues == {5, 10, 20}

\* the values the T slider is moved to
SliderT == {sliderMinT, steps}

\* won = mseNow <= CONFIG.winMSE
wonC(m) == m <= winMSE

DiffusionInit ==
    /\ loadedC = TRUE
    /\ statusC = "idle"
    /\ mseNowC \in MseValues
    /\ TC = steps
    /\ tC = 0
    /\ autoC = FALSE /\ autoTOC = FALSE /\ explosionTOC = FALSE
    /\ recordsC = <<>>
    /\ roundIdC = 1
    /\ showExplosionC = FALSE
    /\ begunC = 0 /\ endedC = <<>> /\ abandonedC = {}

\* ActivityC is not on the page
DiffusionAbsent ==
    /\ loadedC = FALSE
    /\ statusC = "idle"
    /\ mseNowC = 0
    /\ TC = steps
    /\ tC = 0
    /\ autoC = FALSE /\ autoTOC = FALSE /\ explosionTOC = FALSE
    /\ recordsC = <<>>
    /\ roundIdC = 1
    /\ showExplosionC = FALSE
    /\ begunC = 0 /\ endedC = <<>> /\ abandonedC = {}

NotDiffusion == UNCHANGED <<activityDVars, arg, ret, loaderVars, bombVars, wordVars>>

\* endRound(w), called by the effect in the render with mseNow = m, t = k,
\* T = limit, records = recs, roundId = id: the record is prepended, the
\* explosion timeout is set on a loss, the auto loop is stopped
endRoundC(w, m, k, limit, recs, id, show, expl, round) ==
    /\ statusC' = IF w THEN "won" ELSE "lost"
    /\ showExplosionC' = (show \/ ~w)
    /\ explosionTOC' = (expl \/ ~w)
    /\ recordsC' = <<[id |-> id,
                     outcome |-> IF w THEN "Win" ELSE "Loss",
                     stepsUsed |-> Min2(k, limit),
                     mse |-> m]>> \o recs
    /\ roundIdC' = id + 1
    /\ autoC' = FALSE
    /\ autoTOC' = FALSE
    /\ mseNowC' = m /\ tC' = k /\ TC' = limit
    /\ endedC' = Append(endedC, [round |-> round, won |-> w])

\* the render after a handler has set the state to (s, m, k, limit, a, ...)
\* and the effects of that render: the end-of-round effect calls endRound when
\* the round is running and is won or out of steps; the auto effect leaves a
\* timeout set exactly when auto is on and the round goes on
Render(s, m, k, limit, a, recs, id, show, expl, round) ==
    IF s = "running" /\ (wonC(m) \/ k >= limit)
    THEN endRoundC(wonC(m), m, k, limit, recs, id, show, expl, round)
    ELSE /\ statusC' = s /\ mseNowC' = m /\ tC' = k /\ TC' = limit
         /\ autoC' = a /\ autoTOC' = (a /\ s = "running")
         /\ recordsC' = recs /\ roundIdC' = id
         /\ showExplosionC' = show /\ explosionTOC' = expl
         /\ endedC' = endedC

\* the Begin / Play Again button, rendered while status is not "running"
beginC ==
    /\ loadedC
    /\ statusC # "running"
    /\ begunC < MaxRoundsC
    /\ \E m \in MseValues :
          Render("running", m, 0, TC, autoC, recordsC, roundIdC, FALSE, explosionTOC,
                 begunC + 1)
    /\ begunC' = begunC + 1
    /\ UNCHANGED <<loadedC, abandonedC>>
    /\ NotDiffusion

\* the Run Optimal buttons, applyPreset(PRESETS.Optimal): one of them is
\* rendered at all times; pressed while a round runs it starts that round over
applyPreset ==
    /\ loadedC
    /\ statusC = "running" \/ begunC < MaxRoundsC
    /\ \E round \in {IF statusC = "running" THEN begunC ELSE begunC + 1} :
          /\ \E m \in MseValues :
                Render("running", m, 0, OptimalT, TRUE, recordsC, roundIdC, FALSE,
                       explosionTOC, round)
          /\ begunC' = round
    /\ UNCHANGED <<loadedC, abandonedC>>
    /\ NotDiffusion

\* nextStep: x becomes the noisy update and t becomes t + 1
nextStepFrom(k) ==
    \E m \in MseValues :
        Render(statusC, m, k + 1, TC, autoC, recordsC, roundIdC, showExplosionC,
               explosionTOC, begunC)

\* the Step button, rendered while status is "running"
nextStep ==
    /\ loadedC
    /\ statusC = "running"
    /\ nextStepFrom(tC)
    /\ UNCHANGED <<loadedC, begunC, abandonedC>>
    /\ NotDiffusion

\* the Auto / Pause Auto button, rendered while status is "running"
toggleAuto ==
    /\ loadedC
    /\ statusC = "running"
    /\ Render(statusC, mseNowC, tC, TC, ~autoC, recordsC, roundIdC, showExplosionC,
              explosionTOC, begunC)
    /\ UNCHANGED <<loadedC, begunC, abandonedC>>
    /\ NotDiffusion

\* the timeout of the auto loop comes due and calls nextStep
AutoTimeout ==
    /\ loadedC
    /\ autoTOC
    /\ nextStepFrom(tC)
    /\ UNCHANGED <<loadedC, begunC, abandonedC>>
    /\ NotDiffusion

\* the explosion timeout comes due
ExplosionTimeout ==
    /\ loadedC
    /\ explosionTOC
    /\ showExplosionC' = FALSE
    /\ explosionTOC' = FALSE
    /\ UNCHANGED <<loadedC, statusC, mseNowC, TC, tC, autoC, autoTOC, recordsC, roundIdC,
                   begunC, endedC, abandonedC>>
    /\ NotDiffusion

\* the T slider: setT(v) and, if t > v, set_t(v)
setT ==
    /\ loadedC
    /\ \E v \in SliderT :
          Render(statusC, mseNowC, Min2(tC, v), v, autoC, recordsC, roundIdC,
                 showExplosionC, explosionTOC, begunC)
    /\ UNCHANGED <<loadedC, begunC, abandonedC>>
    /\ NotDiffusion

\* a target picker button: a new target and a new random image, t = 0 and
\* status "idle"
pickTarget ==
    /\ loadedC
    /\ \E m \in MseValues :
          Render("idle", m, 0, TC, autoC, recordsC, roundIdC, showExplosionC,
                 explosionTOC, begunC)
    /\ abandonedC' = IF statusC = "running" THEN abandonedC \cup {begunC} ELSE abandonedC
    /\ UNCHANGED <<loadedC, begunC>>
    /\ NotDiffusion

\* the Reset session button
resetSessionC ==
    /\ loadedC
    /\ \E m \in MseValues :
          Render("idle", m, 0, TC, FALSE, <<>>, 1, FALSE, explosionTOC, begunC)
    /\ abandonedC' = IF statusC = "running" THEN abandonedC \cup {begunC} ELSE abandonedC
    /\ UNCHANGED <<loadedC, begunC>>
    /\ NotDiffusion

\* ActivityC leaves the page: the cleanup of the mount effect clears both
\* timeouts
CloseDiffusion ==
    /\ loadedC
    /\ loadedC' = FALSE
    /\ autoTOC' = FALSE /\ explosionTOC' = FALSE
    /\ abandonedC' = IF statusC = "running" THEN abandonedC \cup {begunC} ELSE abandonedC
    /\ UNCHANGED <<statusC, mseNowC, TC, tC, autoC, recordsC, roundIdC, showExplosionC,
                   begunC, endedC>>
    /\ NotDiffusion

NextDiffusion ==
    \/ beginC \/ applyPreset \/ nextStep \/ toggleAuto \/ AutoTimeout \/ ExplosionTimeout
    \/ setT \/ pickTarget \/ resetSessionC \/ CloseDiffusion

-----------------------------------------------------------------------------
(* ActivityB, "Word Guesser" *)

MaxRoundsB == 1      \* rounds begun in one behaviour

Difficulties == {"easy", "medium", "hard"}

\* WORD_BANK, each word as the sequence of its characters
WORDS_easy ==
    <<<<"A", "P", "P", "L", "E">>,
      <<"H", "O", "U", "S", "E">>,
      <<"K", "O", "A", "L", "A">>,
      <<"T", "R", "A", "I", "N">>,
      <<"G", "U", "I", "T", "A", "R">>,
      <<"R", "I", "V", "E", "R">>,
      <<"B", "R", "I", "D", "G", "E">>,
      <<"K", "A", "N", "G", "A", "R", "O", "O">>,
      <<"P", "L", "A", "N", "E", "T">>,
      <<"G", "A", "R", "D", "E", "N">>,
      <<"S", "C", "H", "O", "O", "L">>,
      <<"B", "E", "A", "C", "H">>,
      <<"M", "O", "U", "N", "T", "A", "I", "N">>,
      <<"F", "O", "R", "E", "S", "T">>,
      <<"F", "L", "O", "W", "E", "R">>,
      <<"B", "U", "T", "T", "E", "R", "F", "L", "Y">>,
      <<"B", "I", "C", "Y", "C", "L", "E">>,
      <<"S", "C", "O", "O", "T", "E", "R">>,
      <<"A", "E", "R", "O", "P", "L", "A", "N", "E">>,
      <<"R", "O", "C", "K", "E", "T">>,
      <<"C", "L", "O", "U", "D">>,
      <<"R", "A", "I", "N", "B", "O", "W">>,
      <<"S", "U", "N", "S", "H", "I", "N", "E">>,
      <<"S", "U", "N", "F", "L", "O", "W", "E", "R">>,
      <<"S", "T", "A", "R", "F", "I", "S", "H">>,
      <<"U", "M", "B", "R", "E", "L", "L", "A">>,
      <<"R", "A", "I", "N", "C", "O", "A", "T">>,
      <<"I", "S", "L", "A", "N", "D">>,
      <<"D", "E", "S", "E", "R", "T">>,
      <<"V", "A", "L", "L", "E", "Y">>,
      <<"O", "C", "E", "A", "N">>,
      <<"E", "L", "E", "P", "H", "A", "N", "T">>,
      <<"T", "I", "G", "E", "R">>,
      <<"L", "I", "O", "N">>,
      <<"M", "O", "N", "K", "E", "Y">>,
      <<"Z", "E", "B", "R", "A">>,
      <<"G", "I", "R", "A", "F", "F", "E">>,
      <<"P", "E", "N", "G", "U", "I", "N">>,
      <<"C", "A", "M", "E", "L">>,
      <<"W", "H", "A", "L", "E">>,
      <<"D", "O", "L", "P", "H", "I", "N">>,
      <<"S", "H", "A", "R", "K">>,
      <<"S", "P", "I", "D", "E", "R">>,
      <<"O", "C", "T", "O", "P", "U", "S">>,
      <<"T", "U", "R", "T", "L", "E">>,
      <<"P", "A", "R", "R", "O", "T">>,
      <<"E", "M", "U">>,
      <<"W", "O", "M", "B", "A", "T">>,
      <<"P", "L", "A", "T", "Y", "P", "U", "S">>,
      <<"D", "I", "N", "G", "O">>,
      <<"W", "A", "L", "L", "A", "B", "Y">>,
      <<"E", "C", "H", "I", "D", "N", "A">>,
      <<"P", "O", "S", "S", "U", "M">>,
      <<"S", "W", "A", "N">>,
      <<"K", "O", "O", "K", "A", "B", "U", "R", "R", "A">>,
      <<"C", "O", "C", "K", "A", "T", "O", "O">>,
      <<"C", "A", "S", "S", "O", "W", "A", "R", "Y">>,
      <<"B", "A", "N", "A", "N", "A">>,
      <<"O", "R", "A", "N", "G", "E">>,
      <<"C", "A", "R", "R", "O", "T">>,
      <<"C", "U", "C", "U", "M", "B", "E", "R">>,
      <<"S", "A", "N", "D", "W", "I", "C", "H">>,
      <<"B", "I", "S", "C", "U", "I", "T">>,
      <<"P", "A", "N", "C", "A", "K", "E">>,
      <<"P", "E", "N", "C", "I", "L">>,
      <<"C", "R", "A", "Y", "O", "N">>,
      <<"M", "A", "R", "K", "E", "R">>,
      <<"N", "O", "T", "E", "B", "O", "O", "K">>,
      <<"B", "A", "C", "K", "P", "A", "C", "K">>,
      <<"S", "C", "H", "O", "O", "L", "B", "A", "G">>,
      <<"S", "C", "I", "S", "S", "O", "R", "S">>,
      <<"T", "A", "B", "L", "E">>,
      <<"C", "H", "A", "I", "R">>,
      <<"W", "I", "N", "D", "O", "W">>,
      <<"D", "O", "O", "R">>,
      <<"K", "I", "T", "C", "H", "E", "N">>,
      <<"B", "E", "D", "R", "O", "O", "M">>,
      <<"S", "O", "C", "C", "E", "R">>,
      <<"C", "R", "I", "C", "K", "E", "T">>,
      <<"R", "U", "G", "B", "Y">>,
      <<"T", "E", "N", "N", "I", "S">>,
      <<"B", "A", "S", "K", "E", "T", "B", "A", "L", "L">>,
      <<"S", "K", "A", "T", "E", "B", "O", "A", "R", "D">>,
      <<"T", "O", "R", "C", "H">>,
      <<"L", "A", "M", "P">>,
      <<"C", "A", "S", "T", "L", "E">>,
      <<"P", "I", "R", "A", "T", "E">>,
      <<"R", "O", "B", "O", "T">>,
      <<"A", "L", "I", "E", "N">>,
      <<"M", "A", "G", "N", "E", "T">>,
      <<"V", "O", "L", "C", "A", "N", "O">>,
      <<"C", "A", "N", "Y", "O", "N">>,
      <<"M", "E", "T", "E", "O", "R">>,
      <<"S", "E", "A", "S", "H", "E", "L", "L">>,
      <<"S", "E", "A", "H", "O", "R", "S", "E">>,
      <<"S", "A", "N", "D", "C", "A", "S", "T", "L", "E">>,
      <<"W", "A", "T", "E", "R", "F", "A", "L", "L">>,
      <<"R", "A", "I", "N", "D", "R", "O", "P">>,
      <<"S", "N", "O", "W", "F", "L", "A", "K", "E">>,
      <<"H", "O", "N", "E", "Y", "B", "E", "E">>,
      <<"F", "L", "O", "W", "E", "R", "P", "O", "T">>,
      <<"N", "E", "C", "K", "L", "A", "C", "E">>,
      <<"B", "O", "O", "M", "E", "R", "A", "N", "G">>,
      <<"O", "U", "T", "B", "A", "C", "K">>,
      <<"S", "U", "N", "S", "E", "T">>,
      <<"S", "U", "N", "R", "I", "S", "E">>,
      <<"F", "E", "R", "R", "Y">>,
      <<"T", "R", "U", "C", "K">>,
      <<"C", "A", "R", "A", "V", "A", "N">>,
      <<"B", "U", "S">>,
      <<"C", "O", "L", "O", "U", "R">>>>

WORDS_medium ==
    <<<<"P", "Y", "T", "H", "O", "N">>,
      <<"O", "R", "I", "G", "A", "M", "I">>,
      <<"M", "A", "T", "R", "I", "X">>,
      <<"A", "L", "G", "O", "R", "I", "T", "H", "M">>,
      <<"G", "A", "L", "A", "X", "Y">>,
      <<"S", "Y", "M", "M", "E", "T", "R", "Y">>,
      <<"C", "O", "M", "P", "O", "S", "E", "R">>,
      <<"T", "E", "M", "P", "L", "A", "T", "E">>,
      <<"T", "R", "I", "A", "N", "G", "L", "E">>,
      <<"D", "Y", "N", "A", "M", "I", "C", "S">>,
      <<"F", "R", "A", "C", "T", "I", "O", "N">>,
      <<"I", "N", "F", "I", "N", "I", "T", "Y">>,
      <<"A", "L", "G", "E", "B", "R", "A">>,
      <<"G", "E", "O", "M", "E", "T", "R", "Y">>,
      <<"V", "E", "C", "T", "O", "R">>,
      <<"P", "A", "T", "T", "E", "R", "N">>,
      <<"S", "E", "Q", "U", "E", "N", "C", "E">>,
      <<"R", "H", "Y", "T", "H", "M">>,
      <<"M", "E", "L", "O", "D", "Y">>,
      <<"H", "A", "R", "M", "O", "N", "Y">>,
      <<"C", "H", "O", "R", "D">>,
      <<"S", "O", "N", "A", "T", "A">>,
      <<"O", "R", "C", "H", "E", "S", "T", "R", "A">>,
      <<"P", "Y", "R", "A", "M", "I", "D">>,
      <<"S", "P", "H", "E", "R", "E">>,
      <<"C", "Y", "L", "I", "N", "D", "E", "R">>,
      <<"C", "O", "N", "E">>,
      <<"P", "R", "I", "S", "M">>,
      <<"H", "E", "X", "A", "G", "O", "N">>,
      <<"O", "C", "T", "A", "G", "O", "N">>,
      <<"P", "E", "N", "T", "A", "G", "O", "N">>,
      <<"T", "E", "L", "E", "S", "C", "O", "P", "E">>,
      <<"M", "I", "C", "R", "O", "S", "C", "O", "P", "E">>,
      <<"S", "A", "T", "E", "L", "L", "I", "T", "E">>,
      <<"A", "S", "T", "E", "R", "O", "I", "D">>,
      <<"C", "O", "M", "E", "T">>,
      <<"N", "E", "B", "U", "L", "A">>,
      <<"G", "R", "A", "V", "I", "T", "Y">>,
      <<"O", "R", "B", "I", "T">>,
      <<"E", "C", "O", "S", "Y", "S", "T", "E", "M">>,
      <<"H", "A", "B", "I", "T", "A", "T">>,
      <<"G", "E", "O", "L", "O", "G", "Y">>,
      <<"B", "I", "O", "L", "O", "G", "Y">>,
      <<"P", "H", "Y", "S", "I", "C", "S">>,
      <<"C", "H", "E", "M", "I", "S", "T", "R", "Y">>,
      <<"M", "O", "L", "E", "C", "U", "L", "E">>,
      <<"E", "L", "E", "C", "T", "R", "O", "N">>,
      <<"P", "R", "O", "T", "O", "N">>,
      <<"N", "E", "U", "T", "R", "O", "N">>,
      <<"C", "I", "R", "C", "U", "I", "T">>,
      <<"B", "A", "T", "T", "E", "R", "Y">>,
      <<"R", "E", "S", "I", "S", "T", "O", "R">>,
      <<"C", "A", "P", "A", "C", "I", "T", "O", "R">>,
      <<"M", "A", "G", "N", "E", "T", "I", "S", "M">>,
      <<"V", "A", "R", "I", "A", "B", "L", "E">>,
      <<"F", "U", "N", "C", "T", "I", "O", "N">>,
      <<"S", "Y", "N", "T", "A", "X">>,
      <<"C", "O", "M", "P", "I", "L", "E", "R">>,
      <<"D", "E", "B", "U", "G", "G", "E", "R">>,
      <<"P", "R", "O", "G", "R", "A", "M">>>>

WORDS_hard ==
    <<<<"E", "Q", "U", "I", "V", "O", "C", "A", "L">>,
      <<"S", "Y", "N", "T", "H", "E", "S", "I", "S">>,
      <<"P", "A", "R", "A", "D", "O", "X", "I", "C", "A", "L">>,
      <<"P", "S", "Y", "C", "H", "O", "M", "E", "T", "R", "I", "C">>,
      <<"R", "H", "A", "P", "S", "O", "D", "Y">>,
      <<"C", "R", "Y", "P", "T", "I", "C">>,
      <<"L", "A", "B", "Y", "R", "I", "N", "T", "H">>,
      <<"Z", "E", "A", "L", "O", "U", "S", "N", "E", "S", "S">>,
      <<"C", "A", "T", "A", "L", "Y", "S", "T">>,
      <<"H", "Y", "P", "E", "R", "B", "O", "L", "I", "C">>,
      <<"P", "H", "O", "T", "O", "S", "Y", "N", "T", "H", "E", "S", "I", "S">>,
      <<"M", "E", "T", "A", "M", "O", "R", "P", "H", "O", "S", "I", "S">>,
      <<"O", "N", "O", "M", "A", "T", "O", "P", "O", "E", "I", "A">>,
      <<"I", "D", "I", "O", "S", "Y", "N", "C", "R", "A", "S", "Y">>,
      <<"O", "B", "F", "U", "S", "C", "A", "T", "I", "O", "N">>,
      <<"S", "E", "R", "E", "N", "D", "I", "P", "I", "T", "Y">>,
      <<"Q", "U", "I", "N", "T", "E", "S", "S", "E", "N", "T", "I", "A", "L">>,
      <<"I", "N", "E", "F", "F", "A", "B", "L", "E">>,
      <<"A", "N", "A", "C", "H", "R", "O", "N", "I", "S", "T", "I", "C">>,
      <<"M", "A", "G", "N", "A", "N", "I", "M", "O", "U", "S">>,
      <<"P", "E", "R", "N", "I", "C", "I", "O", "U", "S">>,
      <<"L", "O", "Q", "U", "A", "C", "I", "O", "U", "S">>,
      <<"C", "A", "C", "O", "P", "H", "O", "N", "Y">>,
      <<"E", "U", "P", "H", "E", "M", "I", "S", "M">>,
      <<"D", "I", "C", "H", "O", "T", "O", "M", "Y">>,
      <<"A", "M", "B", "I", "V", "A", "L", "E", "N", "C", "E">>,
      <<"A", "M", "B", "I", "G", "U", "I", "T", "Y">>,
      <<"C", "O", "N", "U", "N", "D", "R", "U", "M">>,
      <<"E", "N", "I", "G", "M", "A", "T", "I", "C">>,
      <<"I", "M", "P", "E", "R", "C", "E", "P", "T", "I", "B", "L", "E">>,
      <<"P", "A", "R", "A", "L", "L", "E", "L", "O", "G", "R", "A", "M">>,
      <<"O", "R", "T", "H", "O", "G", "O", "N", "A", "L">>,
      <<"I", "S", "O", "M", "O", "R", "P", "H", "I", "S", "M">>,
      <<"T", "H", "E", "R", "M", "O", "D", "Y", "N", "A", "M", "I", "C", "S">>,
      <<"E", "L", "E", "C", "T", "R", "O", "M", "A", "G", "N", "E", "T", "I", "S", "M">>,
      <<"S", "U", "P", "E", "R", "P", "O", "S", "I", "T", "I", "O", "N">>,
      <<"I", "N", "T", "E", "R", "F", "E", "R", "E", "N", "C", "E">>,
      <<"D", "I", "F", "F", "E", "R", "E", "N", "T", "I", "A", "B", "L", "E">>,
      <<"P", "A", "L", "A", "E", "O", "N", "T", "O", "L", "O", "G", "Y">>,
      <<"A", "R", "C", "H", "A", "E", "O", "L", "O", "G", "Y">>,
      <<"E", "T", "Y", "M", "O", "L", "O", "G", "Y">>,
      <<"P", "A", "L", "I", "N", "D", "R", "O", "M", "I", "C">>,
      <<"T", "R", "A", "N", "S", "C", "E", "N", "D", "E", "N", "T", "A", "L">>,
      <<"I", "R", "R", "A", "T", "I", "O", "N", "A", "L", "I", "T", "Y">>,
      <<"C", "O", "M", "M", "U", "T", "A", "T", "I", "V", "E">>,
      <<"A", "S", "S", "O", "C", "I", "A", "T", "I", "V", "E">>,
      <<"D", "I", "S", "T", "R", "I", "B", "U", "T", "I", "V", "E">>,
      <<"H", "Y", "P", "O", "T", "E", "N", "U", "S", "E">>,
      <<"H", "O", "M", "E", "O", "M", "O", "R", "P", "H", "I", "S", "M">>,
      <<"A", "N", "T", "H", "R", "O", "P", "O", "L", "O", "G", "Y">>,
      <<"P", "H", "I", "L", "O", "S", "O", "P", "H", "Y">>,
      <<"C", "O", "N", "S", "E", "R", "V", "A", "T", "I", "O", "N">>,
      <<"E", "Q", "U", "I", "V", "A", "L", "E", "N", "C", "E">>,
      <<"S", "U", "F", "F", "I", "C", "I", "E", "N", "C", "Y">>,
      <<"R", "E", "C", "U", "R", "R", "E", "N", "C", "E">>,
      <<"I", "S", "O", "P", "E", "R", "I", "M", "E", "T", "R", "I", "C">>,
      <<"N", "O", "N", "L", "I", "N", "E", "A", "R", "I", "T", "Y">>,
      <<"A", "M", "E", "L", "I", "O", "R", "A", "T", "I", "O", "N">>,
      <<"V", "I", "C", "I", "S", "S", "I", "T", "U", "D", "E">>,
      <<"S", "Y", "Z", "Y", "G", "Y">>>>

WORD_BANK == [easy |-> WORDS_easy, medium |-> WORDS_medium, hard |-> WORDS_hard]

BASE_POINTS == [easy |-> 100, medium |-> 200, hard |-> 400]

\* sample(arr): arr[randInt(0, arr.length - 1)], any element of arr
sample(arr) == {arr[i] : i \in DOMAIN arr}

\* /[A-Z]/.test(ch)
IsUpperLetter(ch) == \E k \in 1..26 : Upper[k] = ch

\* /[A-Z]/i
IsLetter(ch) == \E k \in 1..26 : Upper[k] = ch \/ Lower[k] = ch

\* normalise: s.replace(/[^A-Z]/gi, "").toUpperCase()
normalise(s) == toUpperCase(SelectSeq(s, IsLetter))

\* countLetters: (s.match(/[A-Z]/gi) || []).length
countLetters(s) == Cardinality({i \in DOMAIN s : IsLetter(s[i])})

\* the indices (from 1) of the letters of word not yet revealed, in order
Unrevealed(word, rev) ==
    SelectSeq([i \in DOMAIN word |-> i], LAMBDA i : IsUpperLetter(word[i]) /\ ~rev[i])

\* hasUnrevealedLetters
hasUnrevealedLetters(word, rev) == Unrevealed(word, rev) # <<>>

\* faulty variant: the hints are not counted
pointsIfWinFlat(d, h, n) == BASE_POINTS[d]

\* pointsIfWin for difficulty d, h hints used and n letters:
\* max(10, Math.round(base * max(0, 1 - h / n))).  base * (n - h) / n is
\* rounded half up on the exact quotient; for the bases and the word lengths
\* of the bank the double product lies on the same side of every half (the
\* halves occur for n = 8 only, where 1 - h / 8 is exact)
pointsIfWin(d, h, n) ==
    IF n = 0 THEN BASE_POINTS[d]
    ELSE Max2(10, RoundDiv(BASE_POINTS[d] * Max2(0, n - h), n))

\* the texts typed into the guess field: nothing, a hyphen, the word in
\* lower case with a space after it, a wrong word
Guesses(word) ==
    {<<>>, <<"-">>, <<"z">>,
     [i \in 1..(Len(word) + 1) |->
         IF i > Len(word) THEN " "
         ELSE Lower[CHOOSE k \in 1..26 : Upper[k] = word[i]]]}

WordInit ==
    /\ loadedB = TRUE
    /\ statusB = "idle"
    /\ selectedDifficulty = "medium"
    /\ difficulty = "medium"
    /\ target = <<>>
    /\ revealed = <<>>
    /\ hintsUsed = 0
    /\ guess = <<>>
    /\ recordsB = <<>>
    /\ roundIdB = 1
    /\ showExplosionB = FALSE
    /\ explosionTOB = FALSE
    /\ begunB = 0

\* ActivityB is not on the page
WordAbsent ==
    /\ loadedB = FALSE
    /\ statusB = "idle"
    /\ selectedDifficulty = "medium"
    /\ difficulty = "medium"
    /\ target = <<>>
    /\ revealed = <<>>
    /\ hintsUsed = 0
    /\ guess = <<>>
    /\ recordsB = <<>>
    /\ roundIdB = 1
    /\ showExplosionB = FALSE
    /\ explosionTOB = FALSE
    /\ begunB = 0

NotWord == UNCHANGED <<activityDVars, arg, ret, loaderVars, bombVars, diffusionVars>>

\* a button of the DifficultyPicker
SetSelectedDifficulty ==
    /\ loadedB
    /\ \E d \in Difficulties : selectedDifficulty' = d
    /\ UNCHANGED <<loadedB, statusB, difficulty, target, revealed, hintsUsed, guess,
                   recordsB, roundIdB, showExplosionB, explosionTOB, begunB>>
    /\ NotWord

\* begin(d): the Begin / Play Again button (d is the selected difficulty),
\* rendered while status is not "running", and the three buttons of the
\* banner shown after a round
beginB ==
    /\ loadedB
    /\ statusB # "running"
    /\ begunB < MaxRoundsB
    /\ \E diff \in {selectedDifficulty} \cup
                   (IF statusB \in {"won", "lost"} THEN Difficulties ELSE {}) :
       \E w \in sample(WORD_BANK[diff]) :
          /\ difficulty' = diff
          /\ selectedDifficulty' = diff
          /\ target' = w
          /\ revealed' = [i \in 1..Len(w) |-> FALSE]
    /\ hintsUsed' = 0
    /\ guess' = <<>>
    /\ statusB' = "running"
    /\ showExplosionB' = FALSE
    /\ begunB' = begunB + 1
    /\ UNCHANGED <<loadedB, recordsB, roundIdB, explosionTOB>>
    /\ NotWord

\* the guess field, enabled while the round runs
SetGuess ==
    /\ loadedB
    /\ statusB = "running"
    /\ \E g \in Guesses(target) : guess' = g
    /\ UNCHANGED <<loadedB, statusB, selectedDifficulty, difficulty, target, revealed,
                   hintsUsed, recordsB, roundIdB, showExplosionB, explosionTOB, begunB>>
    /\ NotWord

\* loseRound(g) in a render with hintsUsed = h
loseRound(g, h) ==
    /\ statusB' = "lost"
    /\ recordsB' = <<[id |-> roundIdB, outcome |-> "Loss", points |-> 0,
                     difficulty |-> difficulty, word |-> target, guess |-> g,
                     hintsUsed |-> h]>> \o recordsB
    /\ roundIdB' = roundIdB + 1
    /\ showExplosionB' = TRUE
    /\ explosionTOB' = TRUE

\* winRound(points, g)
winRound(points, g) ==
    /\ statusB' = "won"
    /\ recordsB' = <<[id |-> roundIdB, outcome |-> "Win", points |-> points,
                     difficulty |-> difficulty, word |-> target, guess |-> Some(g),
                     hintsUsed |-> hintsUsed]>> \o recordsB
    /\ roundIdB' = roundIdB + 1
    /\ UNCHANGED <<showExplosionB, explosionTOB>>

\* the Reveal button, enabled while the round runs and a flag of revealed is
\* false: one of the unrevealed letters is revealed (the model draws the
\* first and the last of them) and hintsUsed becomes hintsUsed + 1; the
\* effect of the render that follows loses the round when no letter is left
revealOne ==
    /\ loadedB
    /\ statusB = "running"
    /\ Unrevealed(target, revealed) # <<>>
    /\ \E indices \in {Unrevealed(target, revealed)} :
       \E idx \in {indices[k] : k \in randInt(1, Len(indices))} :
          revealed' = [revealed EXCEPT ![idx] = TRUE]
    /\ hintsUsed' = hintsUsed + 1
    /\ IF hasUnrevealedLetters(target, revealed')
       THEN UNCHANGED <<statusB, recordsB, roundIdB, showExplosionB, explosionTOB>>
       ELSE loseRound(Null, hintsUsed')
    /\ UNCHANGED <<loadedB, selectedDifficulty, difficulty, target, guess, begunB>>
    /\ NotWord

\* the Submit button (and Enter), enabled while the round runs and the guess
\* is not blank
submitGuess ==
    /\ loadedB
    /\ statusB = "running"
    /\ trim(guess) # <<>>
    /\ \E g \in {normalise(guess)} :
          IF g = <<>>
          THEN UNCHANGED <<statusB, recordsB, roundIdB, showExplosionB, explosionTOB>>
          ELSE IF g = normalise(target)
          THEN winRound(pointsIfWin(difficulty, hintsUsed, countLetters(target)), g)
          ELSE loseRound(Some(g), hintsUsed)
    /\ UNCHANGED <<loadedB, selectedDifficulty, difficulty, target, revealed, hintsUsed,
                   guess, begunB>>
    /\ NotWord

\* the explosion timeout comes due
ExplosionTimeoutB ==
    /\ loadedB
    /\ explosionTOB
    /\ showExplosionB' = FALSE
    /\ explosionTOB' = FALSE
    /\ UNCHANGED <<loadedB, statusB, selectedDifficulty, difficulty, target, revealed,
                   hintsUsed, guess, recordsB, roundIdB, begunB>>
    /\ NotWord

\* the Reset session button
resetSessionB ==
    /\ loadedB
    /\ statusB' = "idle"
    /\ target' = <<>>
    /\ revealed' = <<>>
    /\ hintsUsed' = 0
    /\ guess' = <<>>
    /\ recordsB' = <<>>
    /\ roundIdB' = 1
    /\ showExplosionB' = FALSE
    /\ UNCHANGED <<loadedB, selectedDifficulty, difficulty, explosionTOB, begunB>>
    /\ NotWord

\* ActivityB leaves the page: the cleanup of the mount effect clears the
\* explosion timeout
CloseWord ==
    /\ loadedB
    /\ loadedB' = FALSE
    /\ explosionTOB' = FALSE
    /\ UNCHANGED <<statusB, selectedDifficulty, difficulty, target, revealed, hintsUsed,
                   guess, recordsB, roundIdB, showExplosionB, begunB>>
    /\ NotWord

NextWord ==
    \/ SetSelectedDifficulty \/ beginB \/ SetGuess \/ revealOne \/ submitGuess
    \/ ExplosionTimeoutB \/ resetSessionB \/ CloseWord

-----------------------------------------------------------------------------
(* ActivityA, "Beat the Bomb" *)

MaxRounds == 2       \* rounds begun in one behaviour

\* CONFIG
bombMinSec == 10
bombMaxSec == 50
startCeiling == 30
maxCeiling == 100

\* computeX: the ceiling of the value after elapsedMs of a round of bombMs
computeX(elapsedMs, bombMs) ==
    LET r1000 == IF bombMs = 0 THEN 0
                 ELSE Min2(1000, Max2(0, (1000 * elapsedMs) \div bombMs))
    IN Min2(maxCeiling,
            Max2(startCeiling, startCeiling + (r1000 * (maxCeiling - startCeiling)) \div 1000))

\* Date.now() - startMsRef.current when a tick fires or STOP is pressed
ElapsedTimes == {5000}

\* window.setTimeout: a handle not in use
NewHandle(pending) ==
    SetMin({h \in 1..(Cardinality(pending) + 1) : \A t \in pending : t.handle # h})

\* clearTimers: the browser's timeouts without those of the three refs
clearTimers(pending, b, t, e) == {x \in pending : x.handle \notin {b, t, e}}

\* lastCurrRef.current ?? currentRef.current ?? current ?? 0
Payout == IF lastCurrRef # Null THEN lastCurrRef[1]
          ELSE IF currentRef # Null THEN currentRef[1]
          ELSE IF current # Null THEN current[1]
          ELSE 0

BombInit ==
    /\ loaded = TRUE
    /\ status = "idle"
    /\ current = Null
    /\ records = <<>>
    /\ roundId = 1
    /\ runningRef = FALSE
    /\ bombDelayMsRef = 0
    /\ bombTO = 0 /\ tickTO = 0 /\ explosionTO = 0
    /\ currentRef = Null /\ lastCurrRef = Null
    /\ showExplosion = FALSE
    /\ timeouts = {}
    /\ begun = 0 /\ ended = <<>> /\ abandoned = {}

\* ActivityA is not on the page
BombAbsent ==
    /\ loaded = FALSE
    /\ status = "idle"
    /\ current = Null
    /\ records = <<>>
    /\ roundId = 1
    /\ runningRef = FALSE
    /\ bombDelayMsRef = 0
    /\ bombTO = 0 /\ tickTO = 0 /\ explosionTO = 0
    /\ currentRef = Null /\ lastCurrRef = Null
    /\ showExplosion = FALSE
    /\ timeouts = {}
    /\ begun = 0 /\ ended = <<>> /\ abandoned = {}

NotBomb == UNCHANGED <<activityDVars, arg, ret, loaderVars, diffusionVars, wordVars>>

\* the Begin / Play Again button, rendered while status is not "running"
begin ==
    /\ loaded
    /\ status # "running"
    /\ ~runningRef
    /\ begun < MaxRounds
    /\ \E delay \in randInt(bombMinSec * 1000, bombMaxSec * 1000) :
       \E first \in randInt(1, computeX(0, delay)) :
       \E hb \in {NewHandle(timeouts)} :
       \E ht \in {NewHandle(timeouts \cup {[handle |-> hb]})} :
          /\ status' = "running"
          /\ runningRef' = TRUE
          /\ showExplosion' = FALSE
          /\ bombDelayMsRef' = delay
          /\ current' = Some(first)
          /\ currentRef' = Some(first)
          /\ lastCurrRef' = Some(first)
          /\ bombTO' = hb
          /\ tickTO' = ht
          /\ timeouts' = timeouts \cup {[handle |-> hb, callback |-> "bomb", roundId |-> roundId],
                                       [handle |-> ht, callback |-> "tick", roundId |-> roundId]}
    /\ begun' = begun + 1
    /\ UNCHANGED <<loaded, records, roundId, explosionTO, ended, abandoned>>
    /\ NotBomb

\* faulty variant: the round is recorded but stays running with its timers
endRoundStillRunning(pending, won, payout, elapsed, id, by) ==
    /\ runningRef' = runningRef
    /\ showExplosion' = (showExplosion \/ ~won)
    /\ timeouts' = pending
    /\ UNCHANGED <<bombTO, tickTO, explosionTO>>
    /\ status' = IF won THEN "won" ELSE "lost"
    /\ records' = <<[id |-> id,
                    outcome |-> IF won THEN "Win" ELSE "Loss",
                    winnings |-> IF won THEN payout ELSE 0,
                    stoppedAtMs |-> IF won THEN Some(elapsed) ELSE Null,
                    bombAtMs |-> bombDelayMsRef]>> \o records
    /\ roundId' = roundId + 1
    /\ ended' = Append(ended, [round |-> begun, by |-> by])

\* endRound(won, payout), called with the browser's timeouts as they are:
\* on a loss the explosion timeout is set, and clearTimers then cancels the
\* timeouts of all three refs, that one included
endRound(pending, won, payout, elapsed, id, by) ==
    /\ runningRef' = FALSE
    /\ showExplosion' = (showExplosion \/ ~won)
    /\ \E he \in {NewHandle(pending)} :
       \E armed \in {IF won THEN pending
                   ELSE {x \in pending : x.handle # explosionTO}
                            \cup {[handle |-> he, callback |-> "explosion", roundId |-> id]}} :
          timeouts' = clearTimers(armed, bombTO, tickTO, IF won THEN explosionTO ELSE he)
    /\ bombTO' = 0 /\ tickTO' = 0 /\ explosionTO' = 0
    /\ status' = IF won THEN "won" ELSE "lost"
    /\ records' = <<[id |-> id,
                    outcome |-> IF won THEN "Win" ELSE "Loss",
                    winnings |-> IF won THEN payout ELSE 0,
                    stoppedAtMs |-> IF won THEN Some(elapsed) ELSE Null,
                    bombAtMs |-> bombDelayMsRef]>> \o records
    /\ roundId' = roundId + 1
    /\ ended' = Append(ended, [round |-> begun, by |-> by])

\* the STOP button, rendered while status is "running"
stop ==
    /\ loaded
    /\ status = "running" /\ current # Null
    /\ runningRef
    /\ \E elapsed \in ElapsedTimes : endRound(timeouts, TRUE, Payout, elapsed, roundId, "stop")
    /\ UNCHANGED <<loaded, current, currentRef, lastCurrRef, bombDelayMsRef, begun, abandoned>>
    /\ NotBomb

\* the browser runs the callback of a timeout that is due
Timeout ==
    \E t \in timeouts :
    \E rest \in {timeouts \ {t}} :
        /\ IF t.callback = "bomb" /\ runningRef
           THEN /\ endRound(rest, FALSE, 0, 0, t.roundId, "bomb")
                /\ UNCHANGED <<current, currentRef, lastCurrRef>>
           ELSE IF t.callback = "tick" /\ runningRef
           THEN \E elapsed \in ElapsedTimes :
                \E next \in randInt(1, computeX(elapsed, bombDelayMsRef)) :
                \E ht \in {NewHandle(rest)} :
                    /\ current' = Some(next)
                    /\ currentRef' = Some(next)
                    /\ lastCurrRef' = Some(next)
                    /\ tickTO' = ht
                    /\ timeouts' = rest \cup {[handle |-> ht, callback |-> "tick",
                                               roundId |-> t.roundId]}
                    /\ UNCHANGED <<status, runningRef, showExplosion, bombTO, explosionTO,
                                   records, roundId, ended>>
           ELSE IF t.callback = "explosion"
           THEN /\ showExplosion' = FALSE
                /\ explosionTO' = 0
                /\ timeouts' = rest
                /\ UNCHANGED <<status, runningRef, current, currentRef, lastCurrRef, bombTO,
                               tickTO, records, roundId, ended>>
           ELSE /\ timeouts' = rest
                /\ UNCHANGED <<status, runningRef, showExplosion, current, currentRef,
                               lastCurrRef, bombTO, tickTO, explosionTO, records, roundId,
                               ended>>
        /\ UNCHANGED <<loaded, bombDelayMsRef, begun, abandoned>>
        /\ NotBomb

\* the Reset session button
resetSession ==
    /\ loaded
    /\ timeouts' = clearTimers(timeouts, bombTO, tickTO, explosionTO)
    /\ bombTO' = 0 /\ tickTO' = 0 /\ explosionTO' = 0
    /\ runningRef' = FALSE
    /\ status' = "idle"
    /\ current' = Null
    /\ records' = <<>>
    /\ roundId' = 1
    /\ showExplosion' = FALSE
    /\ abandoned' = IF runningRef THEN abandoned \cup {begun} ELSE abandoned
    /\ UNCHANGED <<loaded, currentRef, lastCurrRef, bombDelayMsRef, begun, ended>>
    /\ NotBomb

\* ActivityA leaves the page ("Load another activity"): the cleanup of the
\* mount effect calls clearTimers
CloseBomb ==
    /\ loaded
    /\ loaded' = FALSE
    /\ timeouts' = clearTimers(timeouts, bombTO, tickTO, explosionTO)
    /\ bombTO' = 0 /\ tickTO' = 0 /\ explosionTO' = 0
    /\ abandoned' = IF runningRef THEN abandoned \cup {begun} ELSE abandoned
    /\ UNCHANGED <<status, current, records, roundId, runningRef, bombDelayMsRef,
                   currentRef, lastCurrRef, showExplosion, begun, ended>>
    /\ NotBomb

InitBomb ==
    /\ ActivityDAbsent /\ LoaderInit /\ BombInit /\ DiffusionAbsent /\ WordAbsent
    /\ arg = Null /\ ret = Null

NextBomb == begin \/ stop \/ Timeout \/ resetSession \/ CloseBomb

SpecBomb == InitBomb /\ [][NextBomb]_vars

\* a timeout that is set and not cancelled comes due and its callback runs
FairSpecBomb == SpecBomb /\ WF_timeouts(Timeout)

-----------------------------------------------------------------------------
(* The components put together *)

\* the page shows the loader; no activity is on it
OtherInit == LoaderInit /\ BombAbsent /\ DiffusionAbsent /\ WordAbsent

InitLoader ==
    /\ ActivityDAbsent /\ BombAbsent /\ DiffusionAbsent /\ WordAbsent
    /\ arg = Null /\ ret = Null
    /\ viteCodes \in Configs
    /\ input = <<>> /\ error = Null /\ activeNode = Null

SpecLoader == InitLoader /\ [][NextLoader]_vars

InitDiffusion ==
    /\ ActivityDAbsent /\ LoaderInit /\ BombAbsent /\ DiffusionInit /\ WordAbsent
    /\ arg = Null /\ ret = Null

InitWord ==
    /\ ActivityDAbsent /\ LoaderInit /\ BombAbsent /\ DiffusionAbsent /\ WordInit
    /\ arg = Null /\ ret = Null

SpecWord == InitWord /\ [][NextWord]_vars

SpecDiffusion == InitDiffusion /\ [][NextDiffusion]_vars

-----------------------------------------------------------------------------
\* ActivityD mounted, and the other components as they are constructed
PipeInit == ActivityDInit /\ OtherInit

Init == PipeInit /\ arg = Null /\ ret = Null

published == <<grid28, preds, topProto, overlayBox, gridSrc, predsSrc, protoSrc>>

\* an input event was handled and called requestProcess
Requested ==
    /\ rafId' = requestProcess(rafId, rafQueue)[1]
    /\ rafQueue' = requestProcess(rafId, rafQueue)[2]
    /\ pendingEvents' = pendingEvents + 1
    /\ frameEvents' = 0
    /\ frameRuns' = 0
    /\ afterClear' = FALSE
    /\ UNCHANGED <<mounted, brush, lineWidth, scratchCrop, scratchOut, protos, published,
                   adjusts, arg, ret, componentVars>>

\* onPointerDown: startDraw(x, y); drawTo(x, y); requestProcess()
PointerDown ==
    /\ mounted
    /\ pendingEvents < MaxPending
    /\ \E p \in Points :
        /\ drawing' = TRUE
        /\ penPos' = p
        /\ bitmap' = Stroke(bitmap, p, p, lineWidth)
    /\ Requested

\* onPointerMove while drawing: drawTo(x, y); requestProcess().  On a path
\* that a resize has emptied lineTo only starts a subpath and nothing is
\* stroked
PointerMove ==
    /\ mounted
    /\ drawing
    /\ pendingEvents < MaxPending
    /\ \E p \in Points :
        /\ penPos' = p
        /\ bitmap' = IF penPos = Null THEN bitmap ELSE Stroke(bitmap, penPos, p, lineWidth)
    /\ UNCHANGED drawing
    /\ Requested

\* onPointerUp, the listener of pointerup and of pointerleave
OnPointerUp ==
    /\ mounted
    /\ pendingEvents < MaxPending
    /\ drawing' = FALSE
    /\ UNCHANGED <<bitmap, penPos>>
    /\ Requested

PointerUp == OnPointerUp
PointerLeave == OnPointerUp

\* the browser dispatches an animation frame: every callback of the list runs
\* rafId.current = null; processNow().  setGrid28, setPreds and setTopProto
\* are called in the one callback and React renders once after it, so the
\* three values are replaced in one step; the overlay is drawn in between
Frame ==
    /\ rafQueue # <<>>
    /\ rafId' = 0
    /\ rafQueue' = <<>>
    /\ IF mounted
       THEN \E out \in {processNow(bitmap, protos, scratchCrop, scratchOut)} :
               /\ grid28' = out.grid28
               /\ scratchCrop' = out.scratchCrop
               /\ scratchOut' = out.scratchOut
               /\ overlayBox' = out.overlayBox
               /\ preds' = out.preds
               /\ topProto' = out.topProto
               /\ gridSrc' = out.gridSrc
               /\ predsSrc' = out.predsSrc
               /\ protoSrc' = out.protoSrc
               /\ frameRuns' = Len(rafQueue)
               /\ frameEvents' = pendingEvents
               /\ pendingEvents' = 0
       ELSE UNCHANGED <<published, scratchCrop, scratchOut, frameRuns, frameEvents,
                        pendingEvents>>
    /\ UNCHANGED <<mounted, bitmap, drawing, penPos, brush, lineWidth, protos, adjusts, arg, ret, otherVars>>

\* faulty variant: Clear also empties the bank
clearDropsBank ==
    /\ mounted
    /\ bitmap' = [y \in DOMAIN bitmap |-> [x \in DOMAIN bitmap[y] |-> White]]
    /\ overlayBox' = Null
    /\ grid28' = zeros(H28, W28)
    /\ preds' = <<>>
    /\ topProto' = Null
    /\ gridSrc' = Null /\ predsSrc' = Null /\ protoSrc' = Null
    /\ protos' = [d \in 0..9 |-> <<>>]
    /\ afterClear' = TRUE
    /\ UNCHANGED <<mounted, drawing, penPos, brush, lineWidth, rafId, rafQueue,
                   scratchCrop, scratchOut,
                   pendingEvents, frameEvents, frameRuns, adjusts, arg, ret, componentVars>>

\* the Clear button
clear ==
    /\ mounted
    /\ bitmap' = [y \in DOMAIN bitmap |-> [x \in DOMAIN bitmap[y] |-> White]]
    /\ overlayBox' = Null
    /\ grid28' = zeros(H28, W28)
    /\ preds' = <<>>
    /\ topProto' = Null
    /\ gridSrc' = Null /\ predsSrc' = Null /\ protoSrc' = Null
    /\ afterClear' = TRUE
    /\ UNCHANGED <<mounted, drawing, penPos, brush, lineWidth, rafId, rafQueue, protos,
                   scratchCrop, scratchOut,
                   pendingEvents, frameEvents, frameRuns, adjusts, arg, ret, componentVars>>

\* a resize or a brush change is counted
Adjusted == adjusts < MaxAdjust /\ adjusts' = adjusts + 1

\* what a resize leaves alone
ResizeUnchanged ==
    UNCHANGED <<mounted, drawing, brush, rafId, rafQueue, grid28, preds, topProto,
                scratchCrop, scratchOut, protos, gridSrc, predsSrc, protoSrc,
                pendingEvents, frameEvents, frameRuns, arg, ret, otherVars>>

\* the ResizeObserver callback: applySize(size) when size differs from the
\* cssCanvasSize of the first render, which the effect's closure keeps.
\* Setting c.width resets both canvases: the overlay is blank, the path of
\* the drawing canvas is empty, and lineWidth is set to the brush of the
\* first render
ResizeObserved ==
    /\ mounted
    /\ bitmap' = applySize(bitmap, CanvasSide + 1)
    /\ overlayBox' = Null
    /\ penPos' = Null
    /\ lineWidth' = 1
    /\ Adjusted
    /\ ResizeUnchanged

\* the listener of the window's resize event: applySize(cssCanvasSize), with
\* the cssCanvasSize of the first render
WindowResize ==
    /\ mounted
    /\ bitmap' = applySize(bitmap, CanvasSide)
    /\ overlayBox' = Null
    /\ penPos' = Null
    /\ lineWidth' = 1
    /\ Adjusted
    /\ ResizeUnchanged

\* the brush slider: setBrush(b), and the effect of [brush] sets lineWidth
SetBrush ==
    /\ mounted
    /\ \E b \in 1..MaxBrush :
        /\ b # brush
        /\ brush' = b
        /\ lineWidth' = b
    /\ Adjusted
    /\ UNCHANGED <<mounted, bitmap, drawing, penPos, rafId, rafQueue, protos, published,
                   scratchCrop, scratchOut,
                   pendingEvents, frameEvents, frameRuns, arg, ret, otherVars>>

\* faulty variant: the unmount without cancelAnimationFrame
UnmountNoCancel ==
    /\ mounted
    /\ mounted' = FALSE
    /\ UNCHANGED <<bitmap, drawing, penPos, brush, lineWidth, rafId, rafQueue, grid28, preds,
                   topProto, overlayBox, scratchCrop, scratchOut, protos, gridSrc, predsSrc,
                   protoSrc, pendingEvents, frameEvents, frameRuns, adjusts, arg, ret, otherVars>>

\* ActivityD unmounts: the effect cleanups run (cancelAnimationFrame of the
\* pending handle, removal of the pointer listeners)
Unmount ==
    /\ mounted
    /\ mounted' = FALSE
    /\ rafQueue' = IF rafId # 0 THEN SelectSeq(rafQueue, LAMBDA hd : hd # rafId)
                   ELSE rafQueue
    /\ UNCHANGED <<bitmap, drawing, penPos, brush, lineWidth, rafId, grid28, preds, topProto,
                   overlayBox, scratchCrop, scratchOut, protos, gridSrc, predsSrc, protoSrc,
                   pendingEvents, frameEvents, frameRuns, adjusts, arg, ret, otherVars>>

Next ==
    \/ PointerDown
    \/ PointerMove
    \/ PointerUp
    \/ PointerLeave
    \/ Frame
    \/ clear
    \/ ResizeObserved
    \/ WindowResize
    \/ SetBrush
    \/ Unmount

Spec == Init /\ [][Next]_vars

\* the browser runs a listed callback: the list empties and the callback's
\* first statement resets rafId.current.  Of the steps of Next these are the
\* Frame steps (Unmount empties the list and leaves rafId.current)
FrameFires ==
    /\ rafQueue # <<>>
    /\ rafQueue' = <<>>
    /\ rafId' = 0

\* animation frames are dispatched as long as callbacks are listed
FairSpec == Spec /\ WF_<<rafId, rafQueue>>(FrameFires)

-----------------------------------------------------------------------------
(* processNow applied to given canvases *)

TestCells == (0..(MaxTestSide - 1)) \X (0..(MaxTestSide - 1))

\* a Black pixel at p and a Light pixel at q on a White or Faint canvas
PairBitmap(bg, p, q) ==
    [y \in 0..(MaxTestSide - 1) |-> [x \in 0..(MaxTestSide - 1) |->
        IF <<y, x>> = p THEN Black ELSE IF <<y, x>> = q THEN Light ELSE bg]]

\* a filled 10x10 black square at offset (5,5) on a white 40x40 canvas
Scenario40 ==
    [y \in 0..39 |-> [x \in 0..39 |->
        IF 5 <= x /\ x < 15 /\ 5 <= y /\ y < 15 THEN Black ELSE White]]

TestBitmaps ==
    {Uniform(h, w, White) : h \in 1..MaxTestSide, w \in 1..MaxTestSide}
    \cup {Uniform(n, n, Transparent) : n \in 1..MaxTestSide}
    \cup {Uniform(n, n, Faint) : n \in 1..MaxTestSide}
    \cup {PairBitmap(bg, p, q) : bg \in {White, Faint}, p \in TestCells, q \in TestCells}
    \cup {Scenario40}

InitRun == PipeInit /\ arg \in TestBitmaps /\ ret = Null

CallRunPipeline ==
    /\ ret = Null
    /\ ret' = Some(RunPipeline(arg, protos, scratchCrop, scratchOut))
    /\ UNCHANGED <<pipeVars, arg>>

NextRun == CallRunPipeline

SpecRun == InitRun /\ [][NextRun]_vars

-----------------------------------------------------------------------------
(* The scaled size applied to given bounding boxes *)

InitScale ==
    /\ PipeInit
    /\ arg \in [bw : 1..MaxBox, bh : 1..MaxBox]
    /\ ret = Null

CallScaledSize ==
    /\ ret = Null
    /\ ret' = Some(ScaledSize(arg.bw, arg.bh))
    /\ UNCHANGED <<pipeVars, arg>>

NextScale == CallScaledSize

SpecScale == InitScale /\ [][NextScale]_vars

-----------------------------------------------------------------------------
(* The classifier applied to given 28x28 grids *)

BankGrids == {buildPrototypeBank[d][k].grid : d \in 0..9, k \in 1..Len(ProtoParams)}

\* g with the cell (y, x) set to v
WithCell(g, y, x, v) == [g EXCEPT ![y][x] = v]

\* the cell-wise maximum of two grids, and a grid at half intensity
Overlay(a, b) == [y \in DOMAIN a |-> [x \in DOMAIN a[y] |-> Max2(a[y][x], b[y][x])]]
Halved(a) == [y \in DOMAIN a |-> [x \in DOMAIN a[y] |-> a[y][x] \div 2]]

ClassifyInputs ==
    BankGrids
    \cup {zeros(H28, W28)}
    \cup {WithCell(g, 0, 0, Unit) : g \in BankGrids}
    \cup {Halved(g) : g \in BankGrids}
    \cup {Overlay(buildPrototypeBank[d][1].grid, buildPrototypeBank[e][1].grid) :
              d \in 0..9, e \in 0..9}
    \cup {Overlay(buildPrototypeBank[d][1].grid, Halved(buildPrototypeBank[e][NumFonts].grid)) :
              d \in 0..9, e \in 0..9}

InitClassify == PipeInit /\ arg \in ClassifyInputs /\ ret = Null

CallClassify ==
    /\ ret = Null
    /\ ret' = Some(Classify(arg, protos))
    /\ UNCHANGED <<pipeVars, arg>>

NextClassify == CallClassify

SpecClassify == InitClassify /\ [][NextClassify]_vars

-----------------------------------------------------------------------------
(* processNow from the distances on, in double arithmetic, for class         *)
(* distances a few units in the last place apart: dists[d] is the double     *)
(* NearBase + k * 2^-57, given by k.  Their spread is below 0.25, so alpha   *)
(* is the constant 120                                                        *)

MaxUlps == 2         \* the near distances are NearBase + 0..MaxUlps units in the last place

\* 0x1.99999999999a8p-5, the eighth double above 0.05
NearBase == FromHex(<<9, 9, 9, 9, 9, 9, 9, 9, 9, 9, 9, 10, 8>>, -5)

\* the double k units in the last place above NearBase (k < 2^26)
DoubleAt(k) == [NearBase EXCEPT !.lo = @ + k]

\* a < b for doubles >= 0
FLess(a, b) ==
    \/ a.e < b.e
    \/ a.e = b.e /\ a.hi < b.hi
    \/ a.e = b.e /\ a.hi = b.hi /\ a.lo < b.lo

\* alpha * dd for alpha = 120 and a double dd > 0, correctly rounded:
\* 120 = 15 * 2^3, the significand times 15 has 56 or 57 bits, of which the
\* last 3 or 4 are rounded off
FMul120(x) ==
    The({The({Round(x.e + 3 + drop,
                    phi \div (2 ^ drop),
                    (plo \div (2 ^ drop)) + (phi % (2 ^ drop)) * (2 ^ (LoBits - drop)),
                    (plo \div (2 ^ (drop - 1))) % 2,
                    plo % (2 ^ (drop - 1)) # 0) :
                 drop \in {IF phi >= 8 * HiOne THEN 4 ELSE 3}}) :
            phi \in {15 * x.hi + (15 * x.lo) \div LoOne},
            plo \in {(15 * x.lo) % LoOne}})

\* the place of probs[i] among the ten probabilities: the number of classes
\* with a smaller one.  exps[i] = exp(logits[i] - maxL) and probs[i] =
\* exps[i] / Z; for logits of magnitude 6 two logits that differ by a unit in
\* the last place (2^-50) give exponentials and quotients that differ, and
\* equal logits give equal ones, so the probabilities are ordered as the
\* logits -alpha * dists[i] are
ProbPlace(ks, i) ==
    Cardinality({j \in 0..9 : FLess(FMul120(DoubleAt(ks[i])), FMul120(DoubleAt(ks[j])))})

\* the distance loop over a bank of which prototype 1 of class d is at
\* distance ks[d] and the others are farther
RECURSIVE NearLoop(_, _, _, _)
NearLoop(bank, ks, d, st) ==
    IF d > 9 THEN st
    ELSE NearLoop(bank, ks, d + 1, DistStep(st, bank[d][1], ks[d]))

\* processNow from the loop on: the sorted predictions and the prototype kept
ClassifyNear(ks, bank) ==
    The({[preds |-> SortPreds([i \in 1..10 |->
                        [digit |-> i - 1, prob |-> ProbPlace(ks, i - 1),
                         dist |-> st.dists[i - 1]]]),
          bestGrid |-> st.bestGrid] :
            st \in {NearLoop(bank, ks, 0, [dists |-> [d \in 0..9 |-> BIG],
                                          bestDist |-> Infinity,
                                          bestGrid |-> Null])}})

\* two classes at near distances, the others 1000 units farther
NearInputs ==
    {[d \in 0..9 |-> IF d = a THEN i ELSE IF d = b THEN j ELSE MaxUlps + 1000] :
        a \in 0..9, b \in 0..9, i \in 0..MaxUlps, j \in 0..MaxUlps}

InitNear == PipeInit /\ arg \in NearInputs /\ ret = Null

CallClassifyNear ==
    /\ ret = Null
    /\ ret' = Some(ClassifyNear(arg, protos))
    /\ UNCHANGED <<pipeVars, arg>>

NextNear == CallClassifyNear

SpecNear == InitNear /\ [][NextNear]_vars

-----------------------------------------------------------------------------
(* reflect applied to given indices and lengths *)

InitReflect ==
    /\ PipeInit
    /\ arg \in [i : (-MaxIndex)..MaxIndex, n : 1..MaxSide]
    /\ ret = Null

CallReflect ==
    /\ ret = Null
    /\ ret' = Some(reflect(arg.i, arg.n))
    /\ UNCHANGED <<pipeVars, arg>>

NextReflect == CallReflect

SpecReflect == InitReflect /\ [][NextReflect]_vars

-----------------------------------------------------------------------------
(* convolve3, normalizeAbs and maxPool2 applied to given grids *)

\* the cells of the enumerated grids: signed, as a Sobel response is
OpsValues == {-2, 0, 1}

\* a grid whose cell (y, x) is (7y + 3x) mod 11 - 4
Ramp(h, w) == [y \in 0..(h - 1) |-> [x \in 0..(w - 1) |-> ((7 * y + 3 * x) % 11) - 4]]

OpsGrids ==
    {<<>>}
    \cup UNION {[0..(h - 1) -> [0..(w - 1) -> OpsValues]] : h \in 1..MaxOpsSide, w \in 1..MaxOpsSide}
    \cup {Ramp(28, 28), Ramp(27, 27), Ramp(3, 5), Ramp(5, 4), Ramp(1, 7)}

InitOps == PipeInit /\ arg \in OpsGrids /\ ret = Null

CallConvolve3 ==
    /\ ret = Null
    /\ \E name \in DOMAIN KERNELS :
           ret' = Some([op |-> "convolve3", kernel |-> name] @@
                       Completion(arg, convolve3(arg, KERNELS[name])))
    /\ UNCHANGED <<pipeVars, arg>>

CallNormalizeAbs ==
    /\ ret = Null
    /\ ret' = Some([op |-> "normalizeAbs", kernel |-> ""] @@
                   Completion(arg, normalizeAbs(arg)))
    /\ UNCHANGED <<pipeVars, arg>>

CallMaxPool2 ==
    /\ ret = Null
    /\ ret' = Some([op |-> "maxPool2", kernel |-> ""] @@
                   Completion(arg, maxPool2(arg)))
    /\ UNCHANGED <<pipeVars, arg>>

NextOps == CallConvolve3 \/ CallNormalizeAbs \/ CallMaxPool2

SpecOps == InitOps /\ [][NextOps]_vars

-----------------------------------------------------------------------------
(* convolve3 with Blur3 applied to constant grids of doubles *)

\* 1, 1/2, 0.7, 0.1, 0.3, 0.9, 1/255, 5/255, 7/255, 234/255, 254/255 and
\* 1 - 2^-53 as doubles
DoubleConstants ==
    {FromHex(c.hex, c.e) : c \in {
        [e |-> 0, hex |-> <<0, 0, 0, 0, 0, 0, 0, 0, 0, 0, 0, 0, 0>>],    \* 1
        [e |-> -1, hex |-> <<0, 0, 0, 0, 0, 0, 0, 0, 0, 0, 0, 0, 0>>],    \* 1/2
        [e |-> -1, hex |-> <<6, 6, 6, 6, 6, 6, 6, 6, 6, 6, 6, 6, 6>>],    \* 0.7
        [e |-> -4, hex |-> <<9, 9, 9, 9, 9, 9, 9, 9, 9, 9, 9, 9, 10>>],    \* 0.1
        [e |-> -2, hex |-> <<3, 3, 3, 3, 3, 3, 3, 3, 3, 3, 3, 3, 3>>],    \* 0.3
        [e |-> -1, hex |-> <<12, 12, 12, 12, 12, 12, 12, 12, 12, 12, 12, 12, 13>>],    \* 0.9
        [e |-> -8, hex |-> <<0, 1, 0, 1, 0, 1, 0, 1, 0, 1, 0, 1, 0>>],    \* 1/255
        [e |-> -6, hex |-> <<4, 1, 4, 1, 4, 1, 4, 1, 4, 1, 4, 1, 4>>],    \* 5/255
        [e |-> -6, hex |-> <<12, 1, 12, 1, 12, 1, 12, 1, 12, 1, 12, 1, 12>>],    \* 7/255
        [e |-> -1, hex |-> <<13, 5, 13, 5, 13, 5, 13, 5, 13, 5, 13, 5, 13>>],    \* 234/255
        [e |-> -1, hex |-> <<15, 13, 15, 13, 15, 13, 15, 13, 15, 13, 15, 14, 0>>],    \* 254/255
        [e |-> -1, hex |-> <<15, 15, 15, 15, 15, 15, 15, 15, 15, 15, 15, 15, 15>>]    \* 1 - 2^-53
        }}
    \cup {DZero}

InitBlur ==
    /\ PipeInit
    /\ arg \in {Uniform(h, w, c) : h \in 1..MaxBlurSide, w \in 1..MaxBlurSide, c \in DoubleConstants}
    /\ ret = Null

CallBlur ==
    /\ ret = Null
    /\ ret' = Some(convolve3Double(arg, Blur3Exp))
    /\ UNCHANGED <<pipeVars, arg>>

NextBlur == CallBlur

SpecBlur == InitBlur /\ [][NextBlur]_vars

-----------------------------------------------------------------------------
(* Every stage of the pipeline applied to given canvases *)

FeatBitmaps ==
    {Uniform(n, n, px) : n \in 1..MaxTestSide, px \in {White, Transparent, Light}}
    \cup {PairBitmap(White, p, q) : p \in TestCells, q \in {<<0, 0>>, <<1, 2>>, <<MaxTestSide - 1, 0>>}}
    \cup {Scenario40}

InitFeat == PipeInit /\ arg \in FeatBitmaps /\ ret = Null

CallStages ==
    /\ ret = Null
    /\ \E grid \in {preprocessTo28x28(arg, scratchCrop, scratchOut).grid} :
           ret' = Some([gray |-> fromImageDataToGray(arg),
                        grid |-> grid,
                        conv |-> ConvMaps(grid),
                        feat |-> feat(grid)])
    /\ UNCHANGED <<pipeVars, arg>>

NextFeat == CallStages

SpecFeat == InitFeat /\ [][NextFeat]_vars

-----------------------------------------------------------------------------
(* The classifier applied with banks that lack prototypes *)

\* the bank without the class d, and with the class d mapped to an empty list
Without(bank, d) == [c \in (DOMAIN bank) \ {d} |-> bank[c]]
Emptied(bank, d) == [bank EXCEPT ![d] = <<>>]

Banks ==
    {buildPrototypeBank, [d \in 0..9 |-> <<>>], <<>>}
    \cup {Without(buildPrototypeBank, d) : d \in 0..9}
    \cup {Emptied(buildPrototypeBank, d) : d \in 0..9}

InitBank ==
    /\ PipeInit
    /\ arg \in [grid : {zeros(H28, W28)} \cup {buildPrototypeBank[d][1].grid : d \in 0..3},
                 bank : Banks]
    /\ ret = Null

CallClassifyOutcome ==
    /\ ret = Null
    /\ ret' = Some(ClassifyOutcome(arg.grid, arg.bank))
    /\ UNCHANGED <<pipeVars, arg>>

NextBank == CallClassifyOutcome

SpecBank == InitBank /\ [][NextBank]_vars

-----------------------------------------------------------------------------
(* The softmax applied to given class distances *)

\* ten equal distances, and ten equal distances but one
DistVectors ==
    {[d \in 0..9 |-> v] : v \in {0, 1000, MseDen(H28, W28) \div 4, MseDen(H28, W28), BIG}}
    \cup {[d \in 0..9 |-> IF d = k THEN v + delta ELSE v] :
              k \in 0..9, v \in {0, 1000}, delta \in {1, 5000, 1000000, MseDen(H28, W28)}}

InitSoftmax == PipeInit /\ arg \in DistVectors /\ ret = Null

CallSoftmax ==
    /\ ret = Null
    /\ ret' = Some(Softmax(arg, MseDen(H28, W28)))
    /\ UNCHANGED <<pipeVars, arg>>

NextSoftmax == CallSoftmax

SpecSoftmax == InitSoftmax /\ [][NextSoftmax]_vars

-----------------------------------------------------------------------------
(* Properties *)

\* C1: at most one run is scheduled at any moment: requestProcess called while
\* a run is scheduled schedules nothing new, and the input events that arrive
\* between two frames lead to exactly one run of processNow.
C1_OneRunPerFrame ==
    /\ Len(rafQueue) <= 1
    /\ mounted => (rafId # 0 <=> rafQueue # <<>>)
    /\ frameRuns <= 1
    /\ frameEvents >= 1 => frameRuns = 1

\* two or more input events were served by one frame, which ran processNow once
C1_Witness == frameEvents >= 2 /\ frameRuns = 1

\* C2: the published grid, predictions and closest prototype always come from
\* the same run (or all three from clear / the initial state): the grid of one
\* run is never paired with the predictions or prototype of another.  The
\* feature maps are a function of grid28 (useMemo on [grid28]) and go with it.
C2_PublishedTogether ==
    /\ gridSrc = predsSrc
    /\ predsSrc = protoSrc
    /\ gridSrc = Null => (preds = <<>> /\ topProto = Null)
    /\ gridSrc # Null => (Len(preds) = 10 /\ topProto # Null)

\* a run has published after an earlier result was on display
C2_Witness ==
    /\ gridSrc # Null
    /\ Len(preds) = 10
    /\ topProto # Null
    /\ overlayBox # Null
    /\ gridSrc = Some(bitmap)

WellFormedPreds(ps) ==
    /\ Len(ps) = 10
    /\ {ps[i].digit : i \in 1..10} = 0..9
    /\ \A i \in 1..10 : ps[i].prob >= 0
    /\ Abs(SumSeq([i \in 1..10 |-> ps[i].prob], 1) - POne) <= POne \div 1000000

\* C4: every classifier run yields exactly 10 predictions, one per digit 0-9,
\* with probabilities >= 0 that sum to 1 within 1e-6.
C4_TenPredictionsSumOne == ret # Null => WellFormedPreds(ret[1].preds)

\* an input that is no prototype and whose best class gets less than one half
C4_Witness ==
    /\ ret # Null
    /\ arg \notin BankGrids
    /\ Len(ret[1].preds) = 10
    /\ ret[1].preds[1].prob < POne \div 2

\* C5: the predictions are ordered by non-increasing probability.
C5_SortedDescending ==
    ret # Null => \A i \in 1..9 : ret[1].preds[i].prob >= ret[1].preds[i + 1].prob

\* a result with a strict descent and with a tie
C5_Witness ==
    /\ ret # Null
    /\ ret[1].preds[1].prob > ret[1].preds[2].prob
    /\ \E i \in 1..9 : /\ ret[1].preds[i].prob = ret[1].preds[i + 1].prob
                       /\ ret[1].preds[i].prob > 0

ClassGrids(d) == {protos[d][k].grid : k \in 1..Len(protos[d])}
AllGrids == UNION {ClassGrids(d) : d \in 0..9}

\* C6: the distance recorded for class d is the minimum MSE between the input
\* and the prototypes of class d, and the closest prototype is one whose MSE to
\* the input is minimal over all prototypes.
C6_MinDistances ==
    ret # Null =>
        /\ \A i \in 1..10 :
             /\ \E g \in ClassGrids(ret[1].preds[i].digit) :
                    mse(arg, g) = ret[1].preds[i].dist
             /\ \A g \in ClassGrids(ret[1].preds[i].digit) :
                    mse(arg, g) >= ret[1].preds[i].dist
        /\ ret[1].bestGrid # Null
        /\ ret[1].bestGrid[1] \in AllGrids
        /\ \A g \in AllGrids : mse(arg, g) >= mse(arg, ret[1].bestGrid[1])

\* the nearest prototype of some class is not the first of its class
C6_Witness ==
    /\ ret # Null
    /\ \E d \in 0..9 : mse(arg, protos[d][2].grid) < mse(arg, protos[d][1].grid)
    /\ \E d \in 0..9 : mse(arg, protos[d][1].grid) < mse(arg, protos[d][2].grid)

IsProtoOf(g, d) == \E k \in 1..Len(protos[d]) : g = protos[d][k].grid

\* C7: an input equal to a stored prototype of class 3 gets distance 0 for
\* class 3, and class 3 is ranked first with a probability strictly greater
\* than that of every other class.
C7_ExactPrototypeWins ==
    (ret # Null /\ IsProtoOf(arg, 3)) =>
        /\ ret[1].preds[1].digit = 3
        /\ ret[1].preds[1].dist = 0
        /\ \A i \in 2..10 : ret[1].preds[1].prob > ret[1].preds[i].prob

C7_Witness == ret # Null /\ IsProtoOf(arg, 3) /\ ret[1].preds[1].digit = 3

AllWhite(bmp) == \A y \in DOMAIN bmp : \A x \in DOMAIN bmp[y] : bmp[y][x] = White

\* C8: an all-white bitmap of any size yields bounding box none and an
\* all-zero 28x28 grid, and the classifier still yields 10 well-formed
\* predictions for it.
C8_EmptyCanvas ==
    (ret # Null /\ AllWhite(arg)) =>
        /\ ret[1].bbox = Null
        /\ ret[1].grid = zeros(H28, W28)
        /\ WellFormedPreds(ret[1].preds)

C8_Witness ==
    /\ ret # Null
    /\ AllWhite(arg)
    /\ Height(arg) > 1
    /\ Width(arg) # Height(arg)
    /\ Len(ret[1].preds) = 10

\* the ink value of a pixel is strictly greater than 0.08
PixelIsInk(px) ==
    100 * (1000 * 255 - (299 * px[1] + 587 * px[2] + 114 * px[3])) > 8 * 1000 * 255

InkOf(bmp) ==
    {c \in (0..(Height(bmp) - 1)) \X (0..(Width(bmp) - 1)) : PixelIsInk(bmp[c[1]][c[2]])}

\* C9: for a bitmap with at least one cell of ink above 0.08 the bounding box
\* is the minimal rectangle containing every such cell (each cell inside, each
\* side touched by one) with w >= 1 and h >= 1; the 10x10 square at (5,5) of a
\* 40x40 bitmap gives {x:5, y:5, w:10, h:10}.
C9_MinimalBoundingBox ==
    (ret # Null /\ InkOf(arg) # {}) =>
        /\ ret[1].bbox # Null
        /\ LET b == ret[1].bbox[1]
               ink == InkOf(arg)
           IN /\ b.w >= 1 /\ b.h >= 1
              /\ \A c \in ink : /\ b.x <= c[2] /\ c[2] < b.x + b.w
                                /\ b.y <= c[1] /\ c[1] < b.y + b.h
              /\ \E c \in ink : c[2] = b.x
              /\ \E c \in ink : c[2] = b.x + b.w - 1
              /\ \E c \in ink : c[1] = b.y
              /\ \E c \in ink : c[1] = b.y + b.h - 1
        /\ arg = Scenario40 => ret[1].bbox = Some([x |-> 5, y |-> 5, w |-> 10, h |-> 10])

C9_Witness == ret # Null /\ arg = Scenario40 /\ ret[1].bbox # Null

\* C10: for every bounding box with bw >= 1 and bh >= 1 the scaled size has
\* max(sw, sh) = 20 and 1 <= min(sw, sh) <= 20; the divisor max(bw, bh) is
\* never 0.
C10_ScaledSize ==
    /\ Max2(arg.bw, arg.bh) >= 1
    /\ ret # Null =>
        /\ Max2(ret[1].sw, ret[1].sh) = 20
        /\ Min2(ret[1].sw, ret[1].sh) >= 1
        /\ Min2(ret[1].sw, ret[1].sh) <= 20

\* a box 1 pixel high and more than 40 wide: the rounded height would be 0
C10_Witness == ret # Null /\ arg.bh = 1 /\ arg.bw > 40 /\ ret[1].sh = 1 /\ ret[1].sw = 20

\* the mass of a 28x28 grid and its moments about the axes, with a cell centre
\* at (x + 1/2, y + 1/2): the moments are taken of 2x+1 and 2y+1
GridCells == (0..(H28 - 1)) \X (0..(W28 - 1))
RowMass(g, y) == SumOver([x \in 0..(W28 - 1) |-> g[y][x]], 0..(W28 - 1))
ColMass(g, x) == SumOver([y \in 0..(H28 - 1) |-> g[y][x]], 0..(H28 - 1))
Mass(g) == SumOver([y \in 0..(H28 - 1) |-> RowMass(g, y)], 0..(H28 - 1))
MomentX(g) == SumOver([x \in 0..(W28 - 1) |-> (2 * x + 1) * ColMass(g, x)], 0..(W28 - 1))
MomentY(g) == SumOver([y \in 0..(H28 - 1) |-> (2 * y + 1) * RowMass(g, y)], 0..(H28 - 1))

\* C11: the scaled sw x sh buffer is pasted into the blank 28x28 canvas at
\* (floor((28-sw)/2), floor((28-sh)/2)): the rectangle lies wholly inside the
\* canvas, its opposite margins differ by at most one cell, every cell outside
\* it is 0, and for the 10x10 black square of the 40x40 bitmap the centre of
\* mass of the grid is within one cell of (14,14).
C11_CentredPaste ==
    (ret # Null /\ ret[1].bbox # Null) =>
        LET b == ret[1].bbox[1]
            sz == ScaledSize(b.w, b.h)
            ox == (28 - sz.sw) \div 2
            oy == (28 - sz.sh) \div 2
            g == ret[1].grid
        IN /\ 0 <= ox /\ ox + sz.sw <= 28
           /\ 0 <= oy /\ oy + sz.sh <= 28
           /\ Abs(ox - (28 - (ox + sz.sw))) <= 1
           /\ Abs(oy - (28 - (oy + sz.sh))) <= 1
           /\ \A c \in GridCells :
                  ~(oy <= c[1] /\ c[1] < oy + sz.sh /\ ox <= c[2] /\ c[2] < ox + sz.sw)
                      => g[c[1]][c[2]] = 0
           /\ arg = Scenario40 =>
                  /\ Mass(g) > 0
                  /\ Abs(MomentX(g) - 28 * Mass(g)) <= 2 * Mass(g)
                  /\ Abs(MomentY(g) - 28 * Mass(g)) <= 2 * Mass(g)

\* a pair of ink pixels whose scaled buffer is narrower than it is high, and
\* the 40x40 scenario
C11_Witness ==
    /\ ret # Null /\ ret[1].bbox # Null
    /\ ret[1].bbox[1].w < ret[1].bbox[1].h
    /\ \E c \in GridCells : ret[1].grid[c[1]][c[2]] > 0

\* C12: reflect(i, n) terminates for every integer i and every n >= 1 with an
\* index in 0..n-1; it returns i unchanged when 0 <= i < n, and otherwise the
\* index reached by mirroring at the edges (i < 0 to -i-1, i >= n to 2n-i-1)
\* until it is in range, which is the position of i in the sequence
\* 0..n-1, n-1..0 repeated; -1 gives 0 and n gives n-1.
C12_Reflect ==
    ret # Null =>
        LET i == arg.i
            n == arg.n
            m == i % (2 * n)
        IN /\ ret[1] \in 0..(n - 1)
           /\ (0 <= i /\ i < n) => ret[1] = i
           /\ ret[1] = IF m < n THEN m ELSE 2 * n - 1 - m
           /\ i = -1 => ret[1] = 0
           /\ i = n => ret[1] = n - 1

\* an index more than two lengths below 0: mirrored more than once
C12_Witness == ret # Null /\ arg.n = 3 /\ arg.i = -8 /\ ret[1] = 1

\* the call of op has returned the grid ret[1].value
Returned(op) == ret # Null /\ ret[1].op = op /\ ~ret[1].threw

\* C14 as stated: every cell of normalizeAbs(g) is the corresponding cell of g
\* divided by the maximum absolute value in g (to 1e-4, towards zero), or the
\* grid is all zero, of the same dimensions, when that maximum is below 1e-8.
C14_Original ==
    Returned("normalizeAbs") =>
        LET out == ret[1].value
            m == MaxAbs(arg)
        IN /\ Height(out) = Height(arg) /\ Width(out) = Width(arg)
           /\ \A y \in DOMAIN arg : \A x \in DOMAIN arg[y] :
                  IF m = 0 THEN out[y][x] = 0
                  ELSE IF arg[y][x] >= 0
                       THEN /\ out[y][x] * m <= arg[y][x] * NormOne
                            /\ arg[y][x] * NormOne < (out[y][x] + 1) * m
                       ELSE /\ out[y][x] * m >= arg[y][x] * NormOne
                            /\ arg[y][x] * NormOne > (out[y][x] - 1) * m

\* C14: every cell of normalizeAbs(g) is the absolute value of the
\* corresponding cell of g divided by the maximum absolute value in g (to
\* 1e-4, rounded down), or the grid is all zero, of the same dimensions, when
\* that maximum is below 1e-8.
C14_NormalizeAbs ==
    Returned("normalizeAbs") =>
        LET out == ret[1].value
            m == MaxAbs(arg)
        IN /\ Height(out) = Height(arg) /\ Width(out) = Width(arg)
           /\ \A y \in DOMAIN arg : \A x \in DOMAIN arg[y] :
                  IF m = 0 THEN out[y][x] = 0
                  ELSE /\ out[y][x] * m <= Abs(arg[y][x]) * NormOne
                       /\ Abs(arg[y][x]) * NormOne < (out[y][x] + 1) * m

\* a grid with a negative cell that is not the largest in absolute value
C14_Witness ==
    /\ Returned("normalizeAbs")
    /\ \E y \in DOMAIN arg : \E x \in DOMAIN arg[y] :
           arg[y][x] < 0 /\ 0 < ret[1].value[y][x] /\ ret[1].value[y][x] < NormOne

\* C15: maxPool2 of an h x w grid is a floor(h/2) x floor(w/2) grid (28x28
\* gives 14x14, 27x27 gives 13x13) whose cell (y, x) is the maximum of the
\* four cells in rows 2y, 2y+1 and columns 2x, 2x+1.
C15_MaxPool2 ==
    Returned("maxPool2") =>
        LET out == ret[1].value
        IN /\ Height(out) = Height(arg) \div 2
           /\ Height(out) > 0 => Width(out) = Width(arg) \div 2
           /\ Height(arg) = 28 => (Height(out) = 14 /\ Width(out) = 14)
           /\ Height(arg) = 27 => (Height(out) = 13 /\ Width(out) = 13)
           /\ \A y \in DOMAIN out : \A x \in DOMAIN out[y] :
                  LET block == {arg[yy][xx] : yy \in {2 * y, 2 * y + 1}, xx \in {2 * x, 2 * x + 1}}
                  IN /\ out[y][x] \in block
                     /\ \A v \in block : v <= out[y][x]

\* the 27x27 grid: its last row and column are dropped
C15_Witness ==
    /\ Returned("maxPool2") /\ Height(arg) = 27
    /\ Height(ret[1].value) = 13 /\ Width(ret[1].value) = 13

\* C17 as stated: convolve3, normalizeAbs and maxPool2 are total; given a grid
\* of zero rows each returns a grid of dimension zero instead of throwing, and
\* given a grid with rows each returns without error.
C17_Total ==
    ret # Null =>
        /\ ~ret[1].threw
        /\ Height(arg) = 0 => Height(ret[1].value) = 0

\* the doubles next above and next below a double x > 0
DUp(x) ==
    IF x.lo + 1 < LoOne THEN [x EXCEPT !.lo = x.lo + 1]
    ELSE IF x.hi + 1 < HiOne THEN [x EXCEPT !.hi = x.hi + 1, !.lo = 0]
    ELSE [e |-> x.e + 1, hi |-> HiOne \div 2, lo |-> 0]

DDown(x) ==
    IF x.lo > 0 THEN [x EXCEPT !.lo = x.lo - 1]
    ELSE IF x.hi > HiOne \div 2 THEN [x EXCEPT !.hi = x.hi - 1, !.lo = LoOne - 1]
    ELSE [e |-> x.e - 1, hi |-> HiOne - 1, lo |-> LoOne - 1]

\* the doubles at most four units in the last place away from x > 0
Within4(x) ==
    {x, DUp(x), DUp(DUp(x)), DUp(DUp(DUp(x))), DUp(DUp(DUp(DUp(x)))),
     DDown(x), DDown(DDown(x)), DDown(DDown(DDown(x))), DDown(DDown(DDown(DDown(x))))}

\* C13 as stated: convolve3 with Blur3 on a grid whose cells all equal c
\* returns a grid of the same dimensions whose cells all equal c, border and
\* corner cells included, for every grid size from 1x1 up.
C13_Original ==
    ret # Null =>
        /\ Height(ret[1]) = Height(arg) /\ Width(ret[1]) = Width(arg)
        /\ \A y \in DOMAIN arg : \A x \in DOMAIN arg[y] : ret[1][y][x] = arg[y][x]

\* C13: convolve3 with Blur3 on a grid whose cells all equal c returns a grid
\* of the same dimensions whose cells all equal one another, border and corner
\* cells included, and are at most four units in the last place away from c:
\* the nine products are added in double arithmetic; the cells equal c exactly
\* when c is 0 or the last four bits of its significand are 0.
C13_BlurOfConstant ==
    ret # Null =>
        /\ Height(ret[1]) = Height(arg) /\ Width(ret[1]) = Width(arg)
        /\ \A y \in DOMAIN arg : \A x \in DOMAIN arg[y] :
               /\ ret[1][y][x] = ret[1][0][0]
               /\ arg[y][x].hi = 0 => ret[1][y][x] = arg[y][x]
               /\ arg[y][x].hi # 0 => ret[1][y][x] \in Within4(arg[y][x])
               /\ arg[y][x].lo % 16 = 0 => ret[1][y][x] = arg[y][x]

\* a 3x3 grid of 0.7: the centre has no reflected tap, the corners have five,
\* and every cell comes out as 0.6999999999999998
C13_Witness ==
    /\ ret # Null /\ Height(arg) = 3 /\ Width(arg) = 3
    /\ arg[1][1] = FromHex(<<6, 6, 6, 6, 6, 6, 6, 6, 6, 6, 6, 6, 6>>, -1)
    /\ ret[1][1][1] = DDown(arg[1][1])
    /\ ret[1][0][0] = DDown(arg[1][1])

\* every cell of the grid g is between lo and hi
InRange(g, lo, hi) == \A y \in DOMAIN g : \A x \in DOMAIN g[y] : lo <= g[y][x] /\ g[y][x] <= hi

\* the grids that are in [0,1] at every run: the grayscale grid, the canonical
\* grid, the prototype grids, the blurred grid, the normalised maps and the
\* pooled maps
StagesInUnitRange ==
    /\ InRange(ret[1].gray, 0, Unit)
    /\ InRange(ret[1].grid, 0, Unit)
    /\ \A d \in DOMAIN protos : \A i \in DOMAIN protos[d] : InRange(protos[d][i].grid, 0, Unit)
    /\ InRange(ret[1].conv.Blur3, 0, Unit * KDen)
    /\ \A f \in DOMAIN ret[1].feat : InRange(ret[1].feat[f], 0, NormOne)

C18_EmptyBankAborts ==
    (ret # Null /\ (MissingClass(arg.bank) \/ \A d \in 0..9 : arg.bank[d] = <<>>)) =>
        /\ ret[1].threw
        /\ ret[1].preds = <<>>

\* C19: when the ten class distances are equal (spread 0) the run publishes
\* ten finite probabilities, each 1/10.
C19_EqualDistances ==
    (ret # Null /\ \A d \in 0..9 : arg[d] = arg[0]) =>
        /\ Len(ret[1]) = 10
        /\ \A i \in 1..10 :
               /\ ret[1][i].prob \in 0..POne
               /\ ret[1][i].prob = POne \div 10
               /\ ret[1][i].dist = arg[0]

\* ten distances of 1e9, as left by a bank of empty lists: the logits are
\* -1.2e11 and their exponentials would all underflow without the shift
C19_Witness ==
    /\ ret # Null /\ \A d \in 0..9 : arg[d] = BIG
    /\ \A i \in 1..10 : ret[1][i].prob = POne \div 10

\* C20: the bank is built once, at the mount of ActivityD, with a list of
\* prototypes for every class 0..9, each prototype labelled with its class;
\* no later step (a run of the pipeline, Clear, a resize, a brush change, a
\* pointer event, the unmount) adds, removes or alters a prototype.
C20_BankBuiltOnce ==
    /\ [](/\ protos = buildPrototypeBank
          /\ DOMAIN protos = 0..9
          /\ \A d \in 0..9 :
                 /\ Len(protos[d]) >= 1
                 /\ \A i \in 1..Len(protos[d]) :
                        /\ protos[d][i].digit = d
                        /\ Height(protos[d][i].grid) = H28
                        /\ Width(protos[d][i].grid) = W28)
    /\ [][protos' = protos]_vars

\* after a run of the pipeline, Clear and a resize or a brush change
C20_Witness ==
    /\ adjusts > 0
    /\ preds = <<>> /\ frameRuns = 1
    /\ bitmap = [y \in DOMAIN bitmap |-> [x \in DOMAIN bitmap[y] |-> White]]
    /\ protos = buildPrototypeBank

\* C21: a run of the pipeline publishes what the current bitmap and the bank
\* determine, whatever earlier runs left in the two scratch canvases: the
\* grid, the bounding box, the predictions and the closest prototype are
\* those of a run with fresh scratch canvases, and a second run on the bitmap
\* that the previous run read publishes the same values again.
C21_RunDependsOnBitmapOnly ==
    [][(mounted /\ rafQueue # <<>> /\ rafQueue' = <<>> /\ rafId' = 0) =>
          \E r \in {RunPipeline(bitmap, protos, NewCanvas, NewCanvas)} :
              /\ grid28' = r.grid
              /\ overlayBox' = r.bbox
              /\ preds' = r.preds
              /\ topProto' = r.bestGrid
              /\ gridSrc = Some(bitmap) =>
                     /\ grid28' = grid28
                     /\ preds' = preds
                     /\ topProto' = topProto
                     /\ overlayBox # Null => overlayBox' = overlayBox]_vars

\* the last frame served a single pointerup, so the stroke on the canvas was
\* processed by an earlier run: the bitmap has been processed twice, the
\* second time with the scratch canvases the first run had drawn on
C21_Witness ==
    /\ mounted /\ adjusts = 0
    /\ frameEvents = 1 /\ frameRuns = 1 /\ drawing = FALSE
    /\ gridSrc = Some(bitmap)
    /\ \E y \in DOMAIN bitmap : \E x \in DOMAIN bitmap[y] : bitmap[y][x] = Black
    /\ scratchCrop # NewCanvas /\ scratchOut # NewCanvas
    /\ Len(preds) = 10

\* C22: once ActivityD is unmounted no run of the pipeline is left to execute
\* (the callback scheduled before the unmount has been cancelled) and no step
\* changes the grid, the predictions, the closest prototype or the overlay:
\* what is published stays what one whole run, Clear or the mount had left.
C22_CancelledRunDiscarded ==
    /\ [](~mounted => (rafQueue = <<>> /\ gridSrc = predsSrc /\ predsSrc = protoSrc))
    /\ [][~mounted' => published' = published]_vars

\* a run was scheduled by two input events and the unmount cancelled it: the
\* handle is still in rafId.current, nothing is listed, nothing was published
C22_Witness ==
    /\ ~mounted
    /\ rafId # 0 /\ rafQueue = <<>>
    /\ pendingEvents = 2
    /\ preds = <<>> /\ gridSrc = Null

\* a submit: the one step of the loader that sets the error or the node
Submitted == activeNode = Null /\ (activeNode' # Null \/ error' # error)

\* the code typed, trimmed and upper-cased, is configured for a known activity
ValidCode ==
    /\ toUpperCase(trim(input)) \in DOMAIN parseCodes(viteCodes)
    /\ parseCodes(viteCodes)[toUpperCase(trim(input))] \in KnownActivities

\* C23: a submit hands an element of the configured activity to onLoaded when
\* the input, trimmed and upper-cased, is a configured code mapped to one of
\* ActivityA..ActivityE; for every other input onLoaded is not called and the
\* error "Invalid code. Please try again." is set.
C23_OnlyValidCodesOpen ==
    [][Submitted =>
          IF ValidCode
          THEN activeNode' =
                   Some([element |-> parseCodes(viteCodes)[toUpperCase(trim(input))]])
          ELSE activeNode' = Null /\ error' = Some(InvalidCode)]_vars

\* the same for the configurations that map no code to a name inherited from
\* Object.prototype
C23_WithoutInheritedNames ==
    [][(Submitted /\ \A k \in DOMAIN parseCodes(viteCodes) :
                         parseCodes(viteCodes)[k] \notin InheritedNames) =>
          IF ValidCode
          THEN activeNode' =
                   Some([element |-> parseCodes(viteCodes)[toUpperCase(trim(input))]])
          ELSE activeNode' = Null /\ error' = Some(InvalidCode)]_vars

\* the calls of endRound made for round r
EndsOf(r) == Cardinality({i \in 1..Len(ended) : ended[i].round = r})

\* the round now running
Running(r) == r = begun /\ runningRef

\* C24 as stated: every round begun that is no longer running has ended
\* exactly once, by STOP or by the bomb.
C24_Original == \A r \in 1..begun : ~Running(r) => EndsOf(r) = 1

\* C24 amended: a round that was not abandoned (by Reset session or by closing
\* the activity while it ran) ends exactly once, by STOP (Win, winnings the
\* value on display) or by the bomb timeout (Loss, winnings 0), never both;
\* the end prepends exactly one record; while no round is running no timeout
\* changes the value on display, the status or the records.  An abandoned
\* round has no end and no record.
C24_RoundEndsOnce ==
    /\ [](\A r \in 1..begun :
              EndsOf(r) = IF Running(r) \/ r \in abandoned THEN 0 ELSE 1)
    /\ [](~runningRef => \A t \in timeouts : t.callback \notin {"bomb", "tick"})
    /\ [][ended' # ended =>
            /\ Len(ended') = Len(ended) + 1
            /\ runningRef /\ ~runningRef'
            /\ Len(records') = Len(records) + 1
            /\ Tail(records') = records
            /\ records'[1].id = roundId
            /\ IF ended'[Len(ended')].by = "stop"
               THEN /\ status' = "won"
                    /\ records'[1].outcome = "Win"
                    /\ records'[1].winnings = current[1]
               ELSE /\ status' = "lost"
                    /\ records'[1].outcome = "Loss"
                    /\ records'[1].winnings = 0]_vars
    /\ [][(records' # records /\ ended' = ended) => records' = <<>>]_vars
    /\ [][(~runningRef /\ begun' = begun /\ ~(status' = "idle" /\ current' = Null)) =>
            UNCHANGED <<current, status, records>>]_vars

\* one round was stopped and another was ended by the bomb
C24_Witness ==
    /\ Len(ended) = 2 /\ Len(records) = 2
    /\ ended[1].by # ended[2].by
    /\ ~runningRef /\ timeouts = {}
    /\ \E i \in 1..2 : records[i].outcome = "Win" /\ records[i].winnings > 1

\* C27: after a round is lost to the bomb the explosion overlay is shown and,
\* without any user action, is hidden again (2 seconds later, when the
\* timeout set by endRound comes due), as long as the activity stays open.
C27_ExplosionAutoHides ==
    (loaded /\ status = "lost" /\ showExplosion) ~> (~showExplosion \/ ~loaded)

\* the calls of ActivityC's endRound made for round r
EndsOfC(r) == Cardinality({i \in 1..Len(endedC) : endedC[i].round = r})

\* C25: a running round of the Diffusion Grid is won only if the MSE falls
\* below the win threshold before T steps have been taken, and otherwise is
\* lost when the step counter reaches T; the step counter never exceeds T, and
\* every round that is no longer running has ended exactly once, with exactly
\* one record.
C25_DiffusionRound ==
    /\ [](tC <= TC)
    /\ [](\A r \in 1..begunC : ~(r = begunC /\ statusC = "running") => EndsOfC(r) = 1)
    /\ [][endedC' # endedC =>
            /\ Len(endedC') = Len(endedC) + 1
            /\ Len(recordsC') = Len(recordsC) + 1
            /\ IF endedC'[Len(endedC')].won
               THEN /\ statusC' = "won" /\ recordsC'[1].outcome = "Win"
                    /\ mseNowC' < winMSE /\ tC' < TC'
               ELSE /\ statusC' = "lost" /\ recordsC'[1].outcome = "Loss"
                    /\ mseNowC' >= winMSE /\ tC' = TC']_vars

\* what the rounds of ActivityC do: the step counter never exceeds T; a round
\* that was not dropped (by a target button, Reset session or the close) ends
\* exactly once with one record, as a Win when the MSE is at or under the
\* threshold after at most T steps, as a Loss when it is over the threshold
\* after T steps
C25_WithinTSteps ==
    /\ [](tC <= TC)
    /\ [](\A r \in 1..begunC :
              EndsOfC(r) = IF (r = begunC /\ statusC = "running") \/ r \in abandonedC
                           THEN 0 ELSE 1)
    /\ [][endedC' # endedC =>
            /\ Len(endedC') = Len(endedC) + 1
            /\ Len(recordsC') = Len(recordsC) + 1
            /\ Tail(recordsC') = recordsC
            /\ recordsC'[1].id = roundIdC
            /\ IF endedC'[Len(endedC')].won
               THEN /\ statusC' = "won" /\ recordsC'[1].outcome = "Win"
                    /\ mseNowC' <= winMSE /\ tC' <= TC'
               ELSE /\ statusC' = "lost" /\ recordsC'[1].outcome = "Loss"
                    /\ mseNowC' > winMSE /\ tC' = TC']_vars

\* pointsIfWin as the render computes it
PointsNow == pointsIfWin(difficulty, hintsUsed, countLetters(target))

C28_ClearedStaysEmpty == afterClear => (preds = <<>> /\ topProto = Null)

\* without a run pending when it is pressed, Clear leaves the predictions
\* empty and the closest prototype absent until the next pointer event
C28_NoRunPending ==
    /\ [][(~afterClear /\ afterClear') => (preds' = <<>> /\ topProto' = Null)]_vars
    /\ [][(afterClear /\ preds = <<>> /\ topProto = Null /\ rafQueue = <<>> /\ afterClear') =>
            (preds' = <<>> /\ topProto' = Null /\ rafQueue' = <<>>)]_vars

\* the cells <<y, x>> of a bitmap that a stroke painted
StrokedCells(bmp) ==
    {c \in (0..(Height(bmp) - 1)) \X (0..(Width(bmp) - 1)) : bmp[c[1]][c[2]] = Black}

\* the rectangle box lies within the rows and the columns that have a
\* stroked cell of cells
WithinStrokes(box, cells) ==
    /\ cells # {}
    /\ \A x \in box.x..(box.x + box.w - 1) : \E c \in cells : c[2] <= x
    /\ \A x \in box.x..(box.x + box.w - 1) : \E c \in cells : c[2] >= x
    /\ \A y \in box.y..(box.y + box.h - 1) : \E c \in cells : c[1] <= y
    /\ \A y \in box.y..(box.y + box.h - 1) : \E c \in cells : c[1] >= y

\* C29: a run on a freshly mounted canvas on which nothing was drawn and Clear
\* was not pressed finds no ink and reports no bounding box; more generally
\* the bounding box a run reports covers only cells where a stroke was drawn.
C29_BoxCoversStrokes ==
    (gridSrc # Null /\ overlayBox # Null) =>
        WithinStrokes(overlayBox[1], StrokedCells(gridSrc[1]))

\* once Clear has painted the canvas white, the bounding box a run reports
\* covers only cells where a stroke was drawn, and a run without strokes
\* reports none
C29_OnWhiteCanvas ==
    (gridSrc # Null /\ overlayBox # Null /\
     \A y \in DOMAIN gridSrc[1] : \A x \in DOMAIN gridSrc[1][y] :
         gridSrc[1][y][x] # Transparent) =>
        WithinStrokes(overlayBox[1], StrokedCells(gridSrc[1]))

\* the grid g is one of the prototypes of class d in the bank
OwnedBy(g, d, bank) == \E k \in DOMAIN bank[d] : bank[d][k].grid = g

C30_UnlessLogitsCollide ==
    (ret # Null /\ DOMAIN arg = 0..9 /\ arg[0] \in Nat /\
     \A a \in 0..9 : \A b \in 0..9 :
         arg[a] # arg[b] => FMul120(DoubleAt(arg[a])) # FMul120(DoubleAt(arg[b]))) =>
        /\ ret[1].bestGrid # Null
        /\ OwnedBy(ret[1].bestGrid[1], ret[1].preds[1].digit, protos)

====
